---- MODULE Spec2Model ----
(***************************************************************************)
(* Quota-aware, rate-limited, caching client of the YouTube Data API:      *)
(*   backend/app/utils/rate_limiter.py    RateLimiter                      *)
(*   backend/app/utils/cache_manager.py   CacheManager                     *)
(*   backend/app/services/youtube_api.py  YouTubeAPIWrapper                *)
(*                                                                         *)
(* Time is an integer number of deciseconds (0.1 s), the smallest duration *)
(* the code names (asyncio.sleep(max(0.1, wait_time))); time.time() and    *)
(* datetime.now() both read the variable now.                              *)
(*                                                                         *)
(* Specifications:                                                         *)
(*   SpecLimiter  concurrent acquire / try_acquire / reset on one limiter  *)
(*   SpecCache    direct calls of the CacheManager methods                 *)
(*   Spec         concurrent _make_request calls on one client             *)
(*   SpecBatch    one batch_get_video_details call                         *)
(*   SpecSearch   one search_videos call                                   *)
(***************************************************************************)
EXTENDS Integers, Sequences, FiniteSets, TLC

\* ------------------------------------------------------------------ bounds
MaxTicks == 2           \* number of times the clock is advanced
MaxCalls == 3           \* number of calls started in one behaviour
BurstLimit == 1         \* RateLimitConfig.burst_limit of the model
CallsPerMinute == 2     \* RateLimitConfig.calls_per_minute of the model
CallsPerHour == 3       \* RateLimitConfig.calls_per_hour of the model

\* ------------------------------------------------- program constants (ds)
BurstWindow == 10       \* 1.0 s
MinuteWindow == 600     \* 60.0 s
HourWindow == 36000     \* 3600.0 s
MinSleep == 1           \* 0.1 s
TimestampWindow == 36000 \* 3600 s of grant timestamps kept by acquire

Procs == {1, 2}         \* concurrent tasks sharing one limiter / one client
TokenArgs == {1, 2}     \* the tokens argument of acquire / try_acquire
\* by how much the clock may advance at once: 0.1 s, 1 s, 30 s, 20 min, 1 h
TimeSteps == {1, BurstWindow, MinuteWindow \div 2, HourWindow \div 3, HourWindow}
Inf == 1000000000       \* float('inf')

Min(a, b) == IF a <= b THEN a ELSE b
Max(a, b) == IF a >= b THEN a ELSE b

\* ---------------------------------------------------------- Python values
\* Values that are cached, returned or compared are records: None, a bool, or
\* an API response dict with its 'items' list and its 'nextPageToken'.
None == [none |-> TRUE]
Bool(b) == [bool |-> b]
NoToken == <<>>         \* the dict has no 'nextPageToken' key
\* a response dict: other_keys stands for 'kind', 'etag', 'pageInfo'
Dict(has_items, items, token) ==
    [has_items |-> has_items, items |-> items, nextPageToken |-> token,
     other_keys |-> TRUE]
\* {}
EmptyDict ==
    [has_items |-> FALSE, items |-> <<>>, nextPageToken |-> NoToken,
     other_keys |-> FALSE]
\* Python truthiness of a cached or returned value
Truthy(v) == v # None /\ v # EmptyDict

VARIABLES
    now,            \* the wall clock
    ticks,          \* how often the clock has been advanced
    calls,          \* how many calls have been started
    rl,             \* the RateLimiter's fields
    lock_holder,    \* RateLimiter._lock: the task inside `async with`, or 0
    lock_waiters,   \* RateLimiter._lock: the FIFO of tasks waiting for it
    pc,             \* per task: "idle" | "lock_wait" | "sleeping"
    call,           \* per task: the call in progress (or the last one)
    wake_at,        \* per task: when its asyncio.sleep ends
    ret,            \* the call that completed last, and what it returned or raised
    enable_caching, \* settings.enable_caching
    memory_cache,   \* CacheManager.memory_cache, in dict (insertion) order
    redis,          \* CacheManager.redis_client / connected, and what the server holds
    cop,            \* the last CacheManager call made directly, and its result
    last_set,       \* per logical key: when it was last set directly, and how
    quota_limit,    \* YouTubeAPIWrapper.quota_limit
    quota_used,     \* YouTubeAPIWrapper.quota_used
    quota_reset_time, \* YouTubeAPIWrapper.quota_reset_time
    upstream_calls, \* how often request_func.execute() has been called
    batch,          \* the locals of one batch_get_video_details call
    search,         \* the locals of one search_videos call
    adaptive,       \* the fields AdaptiveRateLimiter adds to RateLimiter
    clients,        \* the YouTubeAPIWrapper objects and the one a handler holds
    keylog          \* the cache keys derived last, and by which process

clockVars == <<now, ticks>>
limVars == <<rl, lock_holder, lock_waiters>>
procVars == <<pc, call, wake_at, ret>>
cacheVars == <<memory_cache, redis, cop, last_set>>
quotaVars == <<quota_used, quota_reset_time>>
configVars == <<enable_caching, quota_limit>>
vars == <<now, ticks, calls, rl, lock_holder, lock_waiters, pc, call, wake_at, ret,
          enable_caching, memory_cache, redis, cop, last_set, quota_limit, quota_used,
          quota_reset_time,
          upstream_calls, batch, search, adaptive, clients, keylog>>

\* ------------------------------------------------------------ RateLimiter

\* RateLimiter.__init__ at time t
NewLimiter(t) ==
    [minute_tokens |-> CallsPerMinute, minute_last_refill |-> t,
     hour_tokens |-> CallsPerHour, hour_last_refill |-> t,
     burst_tokens |-> BurstLimit, burst_last_refill |-> t,
     request_timestamps |-> <<>>, granted |-> <<>>]

\* int((elapsed / window) * capacity), elapsed >= 0
TokensToAdd(elapsed, window, capacity) == (elapsed * capacity) \div window

RefillMinute(L, t) ==
    LET minute_elapsed == t - L.minute_last_refill
        tokens_to_add == TokensToAdd(minute_elapsed, MinuteWindow, CallsPerMinute)
    IN  IF minute_elapsed >= MinuteWindow
        THEN [L EXCEPT !.minute_tokens = CallsPerMinute, !.minute_last_refill = t]
        ELSE [L EXCEPT !.minute_tokens = Min(CallsPerMinute, L.minute_tokens + tokens_to_add),
                       !.minute_last_refill = IF tokens_to_add > 0 THEN t ELSE @]

RefillHour(L, t) ==
    LET hour_elapsed == t - L.hour_last_refill
        tokens_to_add == TokensToAdd(hour_elapsed, HourWindow, CallsPerHour)
    IN  IF hour_elapsed >= HourWindow
        THEN [L EXCEPT !.hour_tokens = CallsPerHour, !.hour_last_refill = t]
        ELSE [L EXCEPT !.hour_tokens = Min(CallsPerHour, L.hour_tokens + tokens_to_add),
                       !.hour_last_refill = IF tokens_to_add > 0 THEN t ELSE @]

RefillBurst(L, t) ==
    LET burst_elapsed == t - L.burst_last_refill
    IN  IF burst_elapsed >= BurstWindow
        THEN [L EXCEPT !.burst_tokens = BurstLimit, !.burst_last_refill = t]
        ELSE L

\* RateLimiter._refill_tokens
RefillTokens(L, t) == RefillBurst(RefillHour(RefillMinute(L, t), t), t)

\* HasTokens testing the hour bucket alone
HasTokens_HourOnly(L, tokens) == L.hour_tokens >= tokens

\* HasTokens without its burst test
HasTokens_NoBurst(L, tokens) ==
    /\ L.minute_tokens >= tokens
    /\ L.hour_tokens >= tokens

\* the admission test of acquire and try_acquire
HasTokens(L, tokens) ==
    /\ L.minute_tokens >= tokens
    /\ L.hour_tokens >= tokens
    /\ L.burst_tokens >= tokens

\* ConsumeTokens leaving the hour bucket alone
ConsumeTokens_SkipHour(L, tokens) ==
    [L EXCEPT !.minute_tokens = @ - tokens,
              !.burst_tokens = @ - tokens]

\* the deduction of acquire and try_acquire
ConsumeTokens(L, tokens) ==
    [L EXCEPT !.minute_tokens = @ - tokens,
              !.hour_tokens = @ - tokens,
              !.burst_tokens = @ - tokens]

\* [ts for ts in request_timestamps if ts > cutoff_time]
PruneTimestamps(s, cutoff_time) == SelectSeq(s, LAMBDA ts : ts > cutoff_time)

\* history of the deductions of the last hour (not a field of the class):
\* a deduction of tokens at time t is added to the record
Deducted(g, tokens, t) ==
    SelectSeq(Append(g, [at |-> t, tokens |-> tokens]),
              LAMBDA d : d.at > t - HourWindow)

\* the granting branch of acquire
GrantAcquire(L, tokens, t) ==
    LET L1 == ConsumeTokens(L, tokens)
    IN  [L1 EXCEPT !.request_timestamps =
                       PruneTimestamps(Append(@, t), t - TimestampWindow),
                   !.granted = Deducted(@, tokens, t)]

\* the granting branch of try_acquire
GrantTryAcquire(L, tokens, t) ==
    LET L1 == ConsumeTokens(L, tokens)
    IN  [L1 EXCEPT !.request_timestamps = Append(@, t),
                   !.granted = Deducted(@, tokens, t)]

\* WaitTime for a loop that does not sleep between two admission checks
WaitTime_Zero(L, tokens, t) == 0

\* the wait_time of acquire's failing branch
WaitTime(L, tokens, t) ==
    LET m == IF L.minute_tokens < tokens THEN MinuteWindow - (t - L.minute_last_refill) ELSE Inf
        h == IF L.hour_tokens < tokens THEN HourWindow - (t - L.hour_last_refill) ELSE Inf
        b == IF L.burst_tokens < tokens THEN BurstWindow - (t - L.burst_last_refill) ELSE Inf
        wait_time == Min(m, Min(h, b))
    IN  Max(MinSleep, IF wait_time = Inf THEN MinSleep ELSE wait_time)

\* RateLimiter.reset
ResetLimiter(L, t) ==
    [minute_tokens |-> CallsPerMinute, minute_last_refill |-> t,
     hour_tokens |-> CallsPerHour, hour_last_refill |-> t,
     burst_tokens |-> BurstLimit, burst_last_refill |-> t,
     request_timestamps |-> <<>>, granted |-> <<>>]

\* ---------------------------------------------------- AdaptiveRateLimiter
\* adaptive_delay is kept in deciseconds
DelayDecay == 1             \* 0.1 s
QuotaDelayStep == 100       \* 10.0 s
QuotaDelayCap == 600        \* 60.0 s
RateDelayStep == 50         \* 5.0 s
RateDelayCap == 300         \* 30.0 s
GenericDelayStep == 10      \* 1.0 s
GenericDelayCap == 100      \* 10.0 s

\* an error_type argument, by what its lower-cased text contains
ErrorTypes == [quota : BOOLEAN, rate : BOOLEAN]
NoErrorType == [quota |-> FALSE, rate |-> FALSE]

\* AdaptiveRateLimiter.__init__; last_op and error_type record the last call
\* of record_success / record_error and its argument
NewAdaptive ==
    [error_count |-> 0, success_count |-> 0, adaptive_delay |-> 0,
     last_error_time |-> 0, last_op |-> "none", error_type |-> NoErrorType]

\* the delay record_success leaves
SuccessDelay(delay) ==
    IF delay > 0 THEN Max(0, delay - DelayDecay) ELSE delay

\* ErrorDelay adding the step of the error class without any cap
ErrorDelay_Uncapped(delay, error_type) ==
    IF error_type.quota THEN delay + QuotaDelayStep
    ELSE IF error_type.rate THEN delay + RateDelayStep
    ELSE delay + GenericDelayStep

\* the delay record_error leaves
ErrorDelay(delay, error_type) ==
    IF error_type.quota THEN Min(QuotaDelayCap, delay + QuotaDelayStep)
    ELSE IF error_type.rate THEN Min(RateDelayCap, delay + RateDelayStep)
    ELSE Min(GenericDelayCap, delay + GenericDelayStep)

\* ----------------------------------------------------------- CacheManager
\* Strings are sequences of characters; a cache key of None or "" is <<>>.
CacheMaxSize == 2       \* settings.cache_max_size of the model
DefaultTtl == 2         \* settings.cache_ttl_seconds of the model, in seconds
KeyLenLimit == 200
DsPerSecond == 10       \* timedelta(seconds=1) in deciseconds

NoKey == <<>>
Prefix == <<"y", "t", "c", "e">>
Keys == {<<"a">>, <<"a", "b">>, <<"b">>}
Patterns == {<<"a", "*">>, <<"b">>}
Payloads == {Dict(TRUE, <<1>>, NoToken), Dict(TRUE, <<2>>, NoToken)}
ClientPayloads == {Dict(TRUE, <<1>>, NoToken), EmptyDict}
TtlArgs == {0, 1}                   \* 0: ttl=None

\* hashlib.md5(key.encode()).hexdigest(): a digest standing for the key
Md5Hex(key) == <<"md5">> \o key

\* CacheManager._generate_cache_key
GenerateCacheKey(key) ==
    Prefix \o <<":">> \o (IF Len(key) > KeyLenLimit THEN Md5Hex(key) ELSE key)

HasKey(mc, ck) == \E i \in 1..Len(mc) : mc[i].key = ck
IndexOf(mc, ck) == CHOOSE i \in 1..Len(mc) : mc[i].key = ck
RemoveKeys(mc, ks) == SelectSeq(mc, LAMBDA e : e.key \notin ks)

\* SortedRank for a sort by decreasing expires_at
SortedRank_Reversed(mc, i) ==
    Cardinality({j \in 1..Len(mc) :
        \/ mc[j].expires_at > mc[i].expires_at
        \/ (mc[j].expires_at = mc[i].expires_at /\ j < i)})

\* position of entry i in sorted(items, key=expires_at): the sort is stable
SortedRank(mc, i) ==
    Cardinality({j \in 1..Len(mc) :
        \/ mc[j].expires_at < mc[i].expires_at
        \/ (mc[j].expires_at = mc[i].expires_at /\ j < i)})

\* EnforceSizeLimit acting only once the cache is over its limit
EnforceSizeLimit_Strict(mc) ==
    IF Len(mc) > CacheMaxSize
    THEN LET items_to_remove == Len(mc) - CacheMaxSize + 1
         IN  RemoveKeys(mc, {mc[i].key : i \in {j \in 1..Len(mc) :
                                            SortedRank(mc, j) < items_to_remove}})
    ELSE mc

\* the size-limit half of _cleanup_memory_cache
EnforceSizeLimit(mc) ==
    IF Len(mc) >= CacheMaxSize
    THEN LET items_to_remove == Len(mc) - CacheMaxSize + 1
         IN  RemoveKeys(mc, {mc[i].key : i \in {j \in 1..Len(mc) :
                                            SortedRank(mc, j) < items_to_remove}})
    ELSE mc

\* the expiry half of _cleanup_memory_cache
RemoveExpired(mc, t) == SelectSeq(mc, LAMBDA e : e.expires_at > t)

\* CacheManager._cleanup_memory_cache
CleanupMemoryCache(mc, t) == EnforceSizeLimit(RemoveExpired(mc, t))

\* self.memory_cache[cache_key] = {...}
StoreEntry(mc, ck, value, expires_at) ==
    LET e == [key |-> ck, value |-> value, expires_at |-> expires_at]
    IN  IF HasKey(mc, ck) THEN [mc EXCEPT ![IndexOf(mc, ck)] = e] ELSE Append(mc, e)

\* EntryIsLive serving an entry at the instant it expires
EntryIsLive_Inclusive(e, t) == e.expires_at >= t

\* whether an entry read at time t is served
EntryIsLive(e, t) == e.expires_at > t

\* CacheManager.get: the value returned and the cache left behind
CacheGet(mc, key, t, enabled) ==
    LET ck == GenerateCacheKey(key)
    IN  IF ~enabled THEN [value |-> None, mc |-> mc]
        ELSE IF HasKey(mc, ck)
        THEN LET entry == mc[IndexOf(mc, ck)]
             IN  IF EntryIsLive(entry, t)
                 THEN [value |-> entry.value, mc |-> mc]
                 ELSE [value |-> None, mc |-> RemoveKeys(mc, {ck})]
        ELSE [value |-> None, mc |-> mc]

\* CacheManager.set: the boolean returned and the cache left behind
CacheSet(mc, key, value, ttl, t, enabled) ==
    LET ck == GenerateCacheKey(key)
        ttl_eff == IF ttl = 0 THEN DefaultTtl ELSE ttl
    IN  IF ~enabled THEN [value |-> FALSE, mc |-> mc]
        ELSE [value |-> TRUE,
              mc |-> StoreEntry(CleanupMemoryCache(mc, t), ck, value,
                                t + ttl_eff * DsPerSecond)]

\* CacheManager.delete
CacheDelete(mc, key) ==
    LET ck == GenerateCacheKey(key)
    IN  [value |-> HasKey(mc, ck), mc |-> RemoveKeys(mc, {ck})]

\* CacheExists answering from the presence of the key alone
CacheExists_KeyOnly(mc, key, t) ==
    [value |-> HasKey(mc, GenerateCacheKey(key)), mc |-> mc]

\* CacheManager.exists
CacheExists(mc, key, t) ==
    LET ck == GenerateCacheKey(key)
    IN  IF HasKey(mc, ck)
        THEN IF EntryIsLive(mc[IndexOf(mc, ck)], t)
             THEN [value |-> TRUE, mc |-> mc]
             ELSE [value |-> FALSE, mc |-> RemoveKeys(mc, {ck})]
        ELSE [value |-> FALSE, mc |-> mc]

\* str.startswith
StartsWith(s, p) == Len(p) <= Len(s) /\ SubSeq(s, 1, Len(p)) = p

\* str.replace('*', '')
StripStars(s) == SelectSeq(s, LAMBDA ch : ch # "*")

\* CacheManager.clear_pattern
CacheClearPattern(mc, pattern) ==
    LET cache_pattern == GenerateCacheKey(pattern)
        keys_to_delete == {mc[i].key : i \in {j \in 1..Len(mc) :
                               StartsWith(mc[j].key, StripStars(cache_pattern))}}
    IN  [value |-> Cardinality(keys_to_delete), mc |-> RemoveKeys(mc, keys_to_delete)]

\* the durable tier (Redis): client tells whether redis_client is set and
\* connected, store is what the server holds, as entries of the same shape as
\* those of memory_cache, their values being the serialized bytes
NoRedis == [client |-> FALSE, store |-> <<>>]
\* what a call of the client (redis_client.get, redis_client.setex) may do;
\* the server answers within the step
RedisOutcomes(rd) == IF rd.client THEN {"ok", "raise"} ELSE {"none"}

\* CacheManager._serialize_value / _deserialize_value of a JSON value
SerializeValue(value) == [format |-> "json", text |-> value]
DeserializeValue(data) == data.text

\* redis_client.get(cache_key): the bytes stored and not expired, or None
RedisGet(rd, ck, t) ==
    IF HasKey(rd.store, ck) /\ rd.store[IndexOf(rd.store, ck)].expires_at > t
    THEN rd.store[IndexOf(rd.store, ck)].value
    ELSE None

\* redis_client.setex(cache_key, ttl, data)
RedisSetex(rd, ck, ttl, data, t) ==
    [rd EXCEPT !.store = StoreEntry(RemoveExpired(@, t), ck, data,
                                    t + ttl * DsPerSecond)]

\* TieredGet without the except clause around the durable tier
TieredGet_NoExcept(mc, rd, key, t, enabled, o) ==
    LET ck == GenerateCacheKey(key)
        data == RedisGet(rd, ck, t)
        r == CacheGet(mc, key, t, enabled)
    IN  IF ~enabled
        THEN [value |-> None, mc |-> mc, raised |-> FALSE, failed |-> FALSE]
        ELSE IF rd.client /\ o = "raise"
        THEN [value |-> None, mc |-> mc, raised |-> TRUE, failed |-> TRUE]
        ELSE IF rd.client /\ data # None
        THEN [value |-> DeserializeValue(data), mc |-> mc, raised |-> FALSE,
              failed |-> FALSE]
        ELSE [value |-> r.value, mc |-> r.mc, raised |-> FALSE, failed |-> FALSE]

\* CacheManager.get with its durable tier, o being what redis_client.get
\* does: the value returned, the in-process cache left behind, whether get
\* raises, and whether the durable tier failed
TieredGet(mc, rd, key, t, enabled, o) ==
    LET ck == GenerateCacheKey(key)
        data == RedisGet(rd, ck, t)
        r == CacheGet(mc, key, t, enabled)
    IN  IF ~enabled
        THEN [value |-> None, mc |-> mc, raised |-> FALSE, failed |-> FALSE]
        ELSE IF rd.client /\ o = "ok" /\ data # None
        THEN [value |-> DeserializeValue(data), mc |-> mc, raised |-> FALSE,
              failed |-> FALSE]
        ELSE [value |-> r.value, mc |-> r.mc, raised |-> FALSE,
              failed |-> rd.client /\ o = "raise"]

\* CacheManager.set with its durable tier, o being what redis_client.setex
\* does: the boolean returned, the two tiers left behind, whether set raises,
\* and whether the durable tier failed
TieredSet(mc, rd, key, value, ttl, t, enabled, o) ==
    LET ck == GenerateCacheKey(key)
        ttl_eff == IF ttl = 0 THEN DefaultTtl ELSE ttl
        r == CacheSet(mc, key, value, ttl, t, enabled)
    IN  IF ~enabled
        THEN [value |-> FALSE, mc |-> mc, rd |-> rd, raised |-> FALSE, failed |-> FALSE]
        ELSE IF rd.client /\ o = "ok"
        THEN [value |-> TRUE, mc |-> mc,
              rd |-> RedisSetex(rd, ck, ttl_eff, SerializeValue(value), t),
              raised |-> FALSE, failed |-> FALSE]
        ELSE [value |-> r.value, mc |-> r.mc, rd |-> rd, raised |-> FALSE,
              failed |-> rd.client /\ o = "raise"]

\* CacheManager.delete with its durable tier, o being what
\* redis_client.delete does: the boolean returned and the two tiers left
\* behind; a key the server holds unexpired counts as deleted
TieredDelete(mc, rd, key, t, o) ==
    LET ck == GenerateCacheKey(key)
        r == CacheDelete(mc, key)
    IN  IF rd.client /\ o = "ok"
        THEN [value |-> (RedisGet(rd, ck, t) # None) \/ r.value, mc |-> r.mc,
              rd |-> [rd EXCEPT !.store = RemoveKeys(@, {ck})], failed |-> FALSE]
        ELSE [value |-> r.value, mc |-> r.mc, rd |-> rd,
              failed |-> rd.client /\ o = "raise"]

\* CacheManager.exists with its durable tier, o being what
\* redis_client.exists does
TieredExists(mc, rd, key, t, o) ==
    LET ck == GenerateCacheKey(key)
        r == CacheExists(mc, key, t)
    IN  IF rd.client /\ o = "ok" /\ RedisGet(rd, ck, t) # None
        THEN [value |-> TRUE, mc |-> mc, failed |-> FALSE]
        ELSE [value |-> r.value, mc |-> r.mc, failed |-> rd.client /\ o = "raise"]

\* CacheManager.get_many: the dict returned, as its (key, value) items in
\* insertion order, and the in-process cache left behind; os[i] is what
\* redis_client.get does for keys[i]
RECURSIVE CacheGetMany(_, _, _, _, _, _)
CacheGetMany(mc, rd, keys, t, enabled, os) ==
    IF keys = <<>>
    THEN [value |-> <<>>, mc |-> mc]
    ELSE LET g == TieredGet(mc, rd, Head(keys), t, enabled, Head(os))
             rest == CacheGetMany(g.mc, rd, Tail(keys), t, enabled, Tail(os))
             item == IF g.value # None
                     THEN <<[key |-> Head(keys), value |-> g.value]>>
                     ELSE <<>>
         IN  [value |-> item \o rest.value, mc |-> rest.mc]

\* ------------------------------------------------------ YouTubeAPIWrapper
QuotaLimit == 100       \* settings.youtube_api_quota_limit of the model
Day == 864000           \* timedelta(days=1)

\* operation names passed to _make_request: two of the cost table, and one that
\* is not in it
Operations == {"search", "captions", "categories"}

\* self.operation_costs.get(operation, 1)
OperationCost(operation) ==
    CASE operation = "search" -> 100
      [] operation = "videos" -> 1
      [] operation = "channels" -> 1
      [] operation = "comments" -> 1
      [] operation = "captions" -> 200
      [] OTHER -> 1

\* what request_func.execute() may do; of the text of an error (e.content, or
\* str(e) of another exception), quota tells whether it contains "quota" and
\* absent whether it contains "disabled" or "not found", in any letter case
OkResponses ==
    [kind : {"ok"}, body : ClientPayloads, status : {200}, quota : {FALSE},
     absent : {FALSE}]
HttpErrors ==
    [kind : {"HttpError"}, body : {None}, status : {403}, quota : BOOLEAN,
     absent : BOOLEAN]
    \cup [kind : {"HttpError"}, body : {None}, status : {400, 404, 500},
          quota : {FALSE}, absent : BOOLEAN]
OtherErrors ==
    [kind : {"Exception"}, body : {None}, status : {0}, quota : {FALSE},
     absent : BOOLEAN]
Responses == OkResponses \cup HttpErrors \cup OtherErrors
\* the responses the client is run against: each payload, one error
ClientResponses ==
    OkResponses \cup {r \in HttpErrors : r.status = 403 /\ r.quota /\ ~r.absent}
NoResponse ==
    [kind |-> "Exception", body |-> None, status |-> 0, quota |-> FALSE,
     absent |-> FALSE]

\* call.via: the public method that made the _make_request call, if the model
\* follows one ("get_video_comments" | "get_video_captions")
\* call.get_failed: the durable tier raised in the cache lookup of the call
NoCall == [fn |-> "none", tokens |-> 0, operation |-> "none", cache_key |-> NoKey,
           via |-> "none", get_failed |-> FALSE]
\* ret.n alternates between 0 and 1 at every completion of a call;
\* ret.swallowed is the exception an except clause of the method turned into
\* the value returned, and whether its text mentions "disabled" or "not
\* found"; ret.msg is the fixed part of its message; ret.upstream is what
\* request_func.execute() returned in the call, or None; ret.set_failed tells
\* whether the durable tier raised when the result was cached
\* ret.response is what request_func.execute() did in the call, or NotCalled
NoSwallow == [type |-> "none", mentions |-> FALSE]
NotCalled ==
    [kind |-> "none", body |-> None, status |-> 0, quota |-> FALSE, absent |-> FALSE]
NoRet == [call |-> NoCall, kind |-> "none", value |-> None, msg |-> "none",
          swallowed |-> NoSwallow, upstream |-> None, set_failed |-> FALSE,
          response |-> NotCalled, n |-> 0]
Returned(c, cl, v) ==
    [call |-> cl, kind |-> "return", value |-> v, msg |-> "none",
     swallowed |-> NoSwallow, upstream |-> None, set_failed |-> FALSE,
     response |-> NotCalled, n |-> 1 - ret.n]
\* an exception of that class, as the value of a call that raised
Exc(type) == [exc |-> type]
Raised(c, cl, type, msg) ==
    [call |-> cl, kind |-> "raise", value |-> Exc(type), msg |-> msg,
     swallowed |-> NoSwallow, upstream |-> None, set_failed |-> FALSE,
     response |-> NotCalled, n |-> 1 - ret.n]

\* {'items': []}
EmptyItems ==
    [has_items |-> TRUE, items |-> <<>>, nextPageToken |-> NoToken,
     other_keys |-> FALSE]

\* the except clauses of get_video_comments and get_video_captions around
\* their _make_request call: r is what _make_request raised (a YouTubeAPIError
\* or its subclass QuotaExceededException), mentions whether str(e).lower()
\* contains "disabled" or "not found"
ExceptClause(cl, r, mentions) ==
    IF \/ cl.via = "get_video_captions"
       \/ (cl.via = "get_video_comments" /\ mentions)
    THEN [r EXCEPT !.kind = "return", !.value = EmptyItems,
                   !.swallowed = [type |-> r.value.exc, mentions |-> mentions]]
    ELSE r

\* _check_quota comparing the usage alone, without the cost of the operation
CheckQuota_NoCost(qu, qrt, operation, t) ==
    LET reset == t > qrt
        qu1 == IF reset THEN 0 ELSE qu
        qrt1 == IF reset THEN t + Day ELSE qrt
    IN  [quota_used |-> qu1, quota_reset_time |-> qrt1, raises |-> qu1 > quota_limit]

\* _check_quota advancing the deadline by one day instead of restarting it
CheckQuota_KeepDeadline(qu, qrt, operation, t) ==
    LET cost == OperationCost(operation)
        reset == t > qrt
        qu1 == IF reset THEN 0 ELSE qu
        qrt1 == IF reset THEN qrt + Day ELSE qrt
    IN  [quota_used |-> qu1, quota_reset_time |-> qrt1,
         raises |-> qu1 + cost > quota_limit]

\* YouTubeAPIWrapper._check_quota: the fields it leaves and whether it raises
CheckQuota(qu, qrt, operation, t) ==
    LET cost == OperationCost(operation)
        reset == t > qrt
        qu1 == IF reset THEN 0 ELSE qu
        qrt1 == IF reset THEN t + Day ELSE qrt
    IN  [quota_used |-> qu1, quota_reset_time |-> qrt1,
         raises |-> qu1 + cost > quota_limit]

\* YouTubeAPIWrapper._update_quota
UpdateQuota(qu, operation) == qu + OperationCost(operation)

\* ClassifyError without the quota case of status 403
ClassifyError_NoQuotaCase(resp) ==
    IF resp.kind = "HttpError"
    THEN IF resp.status = 403
         THEN <<"YouTubeAPIError", "API access forbidden", resp.absent>>
         ELSE IF resp.status = 400 THEN <<"YouTubeAPIError", "Bad request", resp.absent>>
         ELSE IF resp.status = 404 THEN <<"YouTubeAPIError", "Resource not found", TRUE>>
         ELSE <<"YouTubeAPIError", "API error", resp.absent>>
    ELSE <<"YouTubeAPIError", "Unexpected error", resp.absent>>

\* the except clauses of _make_request: the exception raised, the fixed part
\* of its message, and whether the whole message (fixed part and error text)
\* contains "disabled" or "not found"
ClassifyError(resp) ==
    IF resp.kind = "HttpError"
    THEN IF resp.status = 403
         THEN IF resp.quota
              THEN <<"QuotaExceededException", "API quota exceeded", FALSE>>
              ELSE <<"YouTubeAPIError", "API access forbidden", resp.absent>>
         ELSE IF resp.status = 400 THEN <<"YouTubeAPIError", "Bad request", resp.absent>>
         ELSE IF resp.status = 404 THEN <<"YouTubeAPIError", "Resource not found", TRUE>>
         ELSE <<"YouTubeAPIError", "API error", resp.absent>>
    ELSE <<"YouTubeAPIError", "Unexpected error", resp.absent>>

\* Execute charging the operation before the upstream call is made
Execute_QuotaFirst(c, cl, resp, mc, qu) ==
    /\ upstream_calls' = upstream_calls + 1
    /\ IF resp.kind = "ok"
       THEN \E os \in RedisOutcomes(redis) :
                LET st == IF cl.cache_key # NoKey /\ enable_caching
                          THEN TieredSet(mc, redis, cl.cache_key, resp.body, DefaultTtl,
                                         now, enable_caching, os)
                          ELSE [value |-> FALSE, mc |-> mc, rd |-> redis,
                                raised |-> FALSE, failed |-> FALSE]
                    r == IF st.raised
                         THEN ExceptClause(cl, Raised(c, cl, "YouTubeAPIError",
                                                      "Unexpected error"), FALSE)
                         ELSE Returned(c, cl, resp.body)
                IN  /\ quota_used' = UpdateQuota(qu, cl.operation)
                    /\ memory_cache' = st.mc
                    /\ redis' = st.rd
                    /\ ret' = [r EXCEPT !.upstream = resp.body, !.set_failed = st.failed,
                                         !.response = resp]
       ELSE /\ quota_used' = UpdateQuota(qu, cl.operation)
            /\ memory_cache' = mc /\ UNCHANGED redis
            /\ ret' = ExceptClause(cl, [Raised(c, cl, ClassifyError(resp)[1],
                                               ClassifyError(resp)[2])
                                            EXCEPT !.response = resp],
                                   ClassifyError(resp)[3])

\* the try block of _make_request, run by task c with cache mc and quota qu
Execute(c, cl, resp, mc, qu) ==
    /\ upstream_calls' = upstream_calls + 1
    /\ IF resp.kind = "ok"
       THEN \E os \in RedisOutcomes(redis) :
                LET st == IF cl.cache_key # NoKey /\ enable_caching
                          THEN TieredSet(mc, redis, cl.cache_key, resp.body, DefaultTtl,
                                         now, enable_caching, os)
                          ELSE [value |-> FALSE, mc |-> mc, rd |-> redis,
                                raised |-> FALSE, failed |-> FALSE]
                    r == IF st.raised
                         THEN ExceptClause(cl, Raised(c, cl, "YouTubeAPIError",
                                                      "Unexpected error"), FALSE)
                         ELSE Returned(c, cl, resp.body)
                IN  /\ quota_used' = UpdateQuota(qu, cl.operation)
                    /\ memory_cache' = st.mc
                    /\ redis' = st.rd
                    /\ ret' = [r EXCEPT !.upstream = resp.body, !.set_failed = st.failed,
                                         !.response = resp]
       ELSE /\ quota_used' = qu
            /\ memory_cache' = mc /\ UNCHANGED redis
            /\ ret' = ExceptClause(cl, [Raised(c, cl, ClassifyError(resp)[1],
                                               ClassifyError(resp)[2])
                                            EXCEPT !.response = resp],
                                   ClassifyError(resp)[3])

\* ------------------------------------------------------------------ tasks
\* One pass of acquire's `while True` by the task holding the lock; a grant
\* returns to the caller, which for _make_request goes on to the try block.
AcquireIteration(c, cl, resp, mc, qu) ==
    LET L1 == RefillTokens(rl, now)
    IN  IF HasTokens(L1, cl.tokens)
        THEN /\ rl' = GrantAcquire(L1, cl.tokens, now)
             /\ lock_holder' = 0
             /\ pc' = [pc EXCEPT ![c] = "idle"]
             /\ call' = [call EXCEPT ![c] = NoCall]
             /\ wake_at' = [wake_at EXCEPT ![c] = 0]
             /\ IF cl.fn = "_make_request"
                THEN Execute(c, cl, resp, mc, qu)
                ELSE /\ ret' = Returned(c, cl, Bool(TRUE))
                     /\ memory_cache' = mc /\ UNCHANGED redis
                     /\ quota_used' = qu
                     /\ UNCHANGED upstream_calls
        ELSE /\ rl' = L1
             /\ lock_holder' = c
             /\ pc' = [pc EXCEPT ![c] = "sleeping"]
             /\ call' = [call EXCEPT ![c] = cl]
             /\ wake_at' = [wake_at EXCEPT ![c] = now + WaitTime(L1, cl.tokens, now)]
             /\ memory_cache' = mc /\ UNCHANGED redis
             /\ quota_used' = qu
             /\ UNCHANGED <<ret, upstream_calls>>

\* the body of try_acquire, under the lock
TryAcquireBody(c, cl) ==
    LET L1 == RefillTokens(rl, now)
    IN  /\ IF HasTokens(L1, cl.tokens)
           THEN /\ rl' = GrantTryAcquire(L1, cl.tokens, now)
                /\ ret' = Returned(c, cl, Bool(TRUE))
           ELSE /\ rl' = L1
                /\ ret' = Returned(c, cl, Bool(FALSE))
        /\ lock_holder' = 0
        /\ pc' = [pc EXCEPT ![c] = "idle"]
        /\ call' = [call EXCEPT ![c] = NoCall]
        /\ UNCHANGED <<wake_at, upstream_calls>>

\* the body of reset, under the lock
ResetBody(c, cl) ==
    /\ rl' = ResetLimiter(rl, now)
    /\ ret' = Returned(c, cl, None)
    /\ lock_holder' = 0
    /\ pc' = [pc EXCEPT ![c] = "idle"]
    /\ call' = [call EXCEPT ![c] = NoCall]
    /\ UNCHANGED <<wake_at, upstream_calls>>

\* what task c does once it is inside `async with self._lock`
LockedBody(c, cl, resp, mc, qu) ==
    IF cl.fn = "try_acquire"
    THEN TryAcquireBody(c, cl) /\ memory_cache' = mc /\ UNCHANGED redis /\ quota_used' = qu
    ELSE IF cl.fn = "reset"
    THEN ResetBody(c, cl) /\ memory_cache' = mc /\ UNCHANGED redis /\ quota_used' = qu
    ELSE AcquireIteration(c, cl, resp, mc, qu)

\* EnterLock entering the critical section whether or not the lock is free
EnterLock_NoLock(c, cl, resp, mc, qu) ==
    LockedBody(c, cl, resp, mc, qu) /\ UNCHANGED lock_waiters

\* `async with self._lock`: asyncio.Lock is taken at once when it is free
\* and nobody waits for it, and otherwise the task queues up (FIFO)
EnterLock(c, cl, resp, mc, qu) ==
    IF lock_holder = 0 /\ lock_waiters = <<>>
    THEN LockedBody(c, cl, resp, mc, qu) /\ UNCHANGED lock_waiters
    ELSE /\ lock_waiters' = Append(lock_waiters, c)
         /\ pc' = [pc EXCEPT ![c] = "lock_wait"]
         /\ call' = [call EXCEPT ![c] = cl]
         /\ memory_cache' = mc /\ UNCHANGED redis
         /\ quota_used' = qu
         /\ UNCHANGED <<rl, lock_holder, wake_at, ret, upstream_calls>>

\* a call is started by an idle task; idle tasks are interchangeable, and the
\* one with the smallest number takes the call
StartCall(c) ==
    /\ calls < MaxCalls
    /\ calls' = calls + 1
    /\ pc[c] = "idle"
    /\ \A d \in Procs : d < c => pc[d] # "idle"

\* RateLimiter.acquire(tokens)
Acquire(c, tokens) ==
    LET cl == [NoCall EXCEPT !.fn = "acquire", !.tokens = tokens]
    IN  /\ StartCall(c)
        /\ EnterLock(c, cl, NoResponse, memory_cache, quota_used)
        /\ UNCHANGED <<clockVars, configVars, adaptive, clients, keylog, cop, last_set, quota_reset_time, batch, search>>

\* RateLimiter.try_acquire(tokens)
TryAcquire(c, tokens) ==
    LET cl == [NoCall EXCEPT !.fn = "try_acquire", !.tokens = tokens]
    IN  /\ StartCall(c)
        /\ EnterLock(c, cl, NoResponse, memory_cache, quota_used)
        /\ UNCHANGED <<clockVars, configVars, adaptive, clients, keylog, cop, last_set, quota_reset_time, batch, search>>

\* RateLimiter.reset()
Reset(c) ==
    LET cl == [NoCall EXCEPT !.fn = "reset"]
    IN  /\ StartCall(c)
        /\ EnterLock(c, cl, NoResponse, memory_cache, quota_used)
        /\ UNCHANGED <<clockVars, configVars, adaptive, clients, keylog, cop, last_set, quota_reset_time, batch, search>>

\* the lock passes to the first waiter, which runs its critical section
LockGranted(c, resp) ==
    /\ pc[c] = "lock_wait"
    /\ lock_holder = 0
    /\ lock_waiters # <<>>
    /\ Head(lock_waiters) = c
    /\ lock_waiters' = Tail(lock_waiters)
    /\ LockedBody(c, call[c], resp, memory_cache, quota_used)
    /\ UNCHANGED <<clockVars, calls, configVars, adaptive, clients, keylog, cop, last_set,
                   quota_reset_time, batch, search>>

\* asyncio.sleep(max(0.1, wait_time)) is over: the next pass of the loop
Wake(c, resp) ==
    /\ pc[c] = "sleeping"
    /\ now >= wake_at[c]
    /\ AcquireIteration(c, call[c], resp, memory_cache, quota_used)
    /\ UNCHANGED <<clockVars, calls, lock_waiters, configVars, adaptive, clients, keylog, cop, last_set,
                   quota_reset_time, batch, search>>

\* the clock advances by d
Tick(d) ==
    /\ ticks < MaxTicks
    /\ now' = now + d
    /\ ticks' = ticks + 1
    /\ UNCHANGED <<calls, limVars, procVars, configVars, adaptive, clients, keylog, cacheVars, quotaVars,
                   upstream_calls, batch, search>>

\* _make_request taking its rate-limit token before the quota check
MakeRequest_AcquireFirst(c, operation, key, resp) ==
    LET cl == [fn |-> "_make_request", tokens |-> 1, operation |-> operation,
               cache_key |-> key, via |-> "none", get_failed |-> FALSE]
        useCache == key # NoKey /\ enable_caching
        g == IF useCache THEN CacheGet(memory_cache, key, now, enable_caching)
             ELSE [value |-> None, mc |-> memory_cache]
        q == CheckQuota(quota_used, quota_reset_time, operation, now)
        L1 == RefillTokens(rl, now)
    IN  IF useCache /\ Truthy(g.value)
        THEN /\ ret' = Returned(c, cl, g.value)
             /\ memory_cache' = g.mc /\ UNCHANGED redis
             /\ UNCHANGED <<limVars, pc, call, wake_at, quotaVars, upstream_calls>>
        ELSE IF q.raises
        THEN /\ ret' = Raised(c, cl, "QuotaExceededException", "Daily quota limit exceeded")
             /\ memory_cache' = g.mc /\ UNCHANGED redis
             /\ quota_used' = q.quota_used
             /\ quota_reset_time' = q.quota_reset_time
             /\ rl' = IF HasTokens(L1, 1) THEN GrantAcquire(L1, 1, now) ELSE L1
             /\ UNCHANGED <<lock_holder, lock_waiters, pc, call, wake_at, upstream_calls>>
        ELSE /\ quota_reset_time' = q.quota_reset_time
             /\ EnterLock(c, cl, resp, g.mc, q.quota_used)

\* YouTubeAPIWrapper._make_request(request_func, operation, cache_key) called by
\* the method via, up to its first suspension; resp is what
\* request_func.execute() does if called
MakeRequestFor(c, via, operation, key, resp) ==
    \E og \in RedisOutcomes(redis) :
        LET useCache == key # NoKey /\ enable_caching
            g == IF useCache
                 THEN TieredGet(memory_cache, redis, key, now, enable_caching, og)
                 ELSE [value |-> None, mc |-> memory_cache, raised |-> FALSE,
                       failed |-> FALSE]
            cl == [fn |-> "_make_request", tokens |-> 1, operation |-> operation,
                   cache_key |-> key, via |-> via, get_failed |-> g.failed]
            q == CheckQuota(quota_used, quota_reset_time, operation, now)
        IN  IF g.raised
            THEN /\ ret' = Raised(c, cl, "Exception", "cache error")
                 /\ memory_cache' = g.mc /\ UNCHANGED redis
                 /\ UNCHANGED <<limVars, pc, call, wake_at, quotaVars, upstream_calls>>
            ELSE IF useCache /\ Truthy(g.value)
            THEN /\ ret' = Returned(c, cl, g.value)
                 /\ memory_cache' = g.mc /\ UNCHANGED redis
                 /\ UNCHANGED <<limVars, pc, call, wake_at, quotaVars, upstream_calls>>
            ELSE IF q.raises
            THEN /\ ret' = ExceptClause(cl, Raised(c, cl, "QuotaExceededException",
                                                   "Daily quota limit exceeded"), FALSE)
                 /\ memory_cache' = g.mc /\ UNCHANGED redis
                 /\ quota_used' = q.quota_used
                 /\ quota_reset_time' = q.quota_reset_time
                 /\ UNCHANGED <<limVars, pc, call, wake_at, upstream_calls>>
            ELSE /\ quota_reset_time' = q.quota_reset_time
                 /\ EnterLock(c, cl, resp, g.mc, q.quota_used)

\* YouTubeAPIWrapper._make_request called on its own
MakeRequest(c, operation, key, resp) ==
    MakeRequestFor(c, "none", operation, key, resp)

\* a task calls _make_request
Request(c, operation, key, resp) ==
    /\ StartCall(c)
    /\ MakeRequest(c, operation, key, resp)
    /\ UNCHANGED <<clockVars, configVars, adaptive, clients, keylog, cop, last_set, batch, search>>

\* cop.raised: the call raised; cop.failed: the durable tier raised in it;
\* cop.keys: the keys argument of get_many; cop.reaped: the cache keys of the
\* entries that a get, exists or get_many found expired and removed
NoCop == [fn |-> "none", key |-> NoKey, value |-> None, ttl |-> 0, result |-> None,
          at |-> 0, evicted |-> {}, kept |-> {}, raised |-> FALSE, failed |-> FALSE,
          keys |-> <<>>, reaped |-> {}]
\* last_set[k].read: get(k) has returned the value right after that set
NoSet == [at |-> 0, ttl |-> 0, read |-> FALSE]
\* batch.pc: "off" | "loop" | "wait" | "sleep" | "returned" | "raised";
\* requests and results log the ID list of each sub-call and the items it gave
NoBatch == [pc |-> "off", video_ids |-> <<>>, i |-> 0, all_videos |-> <<>>,
            requests |-> <<>>, results |-> <<>>, wake |-> 0]
\* search.pc: "off" | "first" | "loop" | "wait" | "returned" | "raised";
\* issued counts the _make_request calls, pages logs the pages as they arrive;
\* again: this is the second of two identical calls, hit: its first
\* _make_request was served from the cache, first_items: the items the first
\* call returned
NoSearch == [pc |-> "off", max_results |-> 0, requested |-> 0, result |-> None,
             all_items |-> <<>>, next_page_token |-> NoToken,
             remaining_results |-> 0, aliased |-> FALSE, exc |-> "none",
             issued |-> 0, pages |-> <<>>,
             again |-> FALSE, hit |-> FALSE, first_items |-> <<>>]

\* ---------------------------------------------------- client objects
\* settings.youtube_api_key
DefaultApiKey == <<"k">>
\* the api_key argument of get_youtube_api: None or "", blanks, and keys
ApiKeyArgs == {NoKey, <<" ">>, <<"u">>, <<" ", "u", " ">>}

\* str.strip()
RECURSIVE StripLeft(_)
StripLeft(s) == IF s # <<>> /\ Head(s) = " " THEN StripLeft(Tail(s)) ELSE s
RECURSIVE StripRight(_)
StripRight(s) ==
    IF s # <<>> /\ s[Len(s)] = " " THEN StripRight(SubSeq(s, 1, Len(s) - 1)) ELSE s
Strip(s) == StripRight(StripLeft(s))

\* the mutable state YouTubeAPIWrapper.__init__ gives an object at time t:
\* its own RateLimiter, its own CacheManager and its own quota fields
NewClient(t) ==
    [rl |-> NewLimiter(t), quota_used |-> 0, quota_reset_time |-> t + Day,
     memory_cache |-> <<>>]

\* The module-level object youtube_api ("default") and the object made last
\* for a user's key ("user").  The variables rl, quota_used, quota_reset_time
\* and memory_cache are the state of the object the handler holds
\* (clients.cur), and clients.parked is the state of the other one;
\* clients.api_key is self.api_key of either object (NoKey: not made yet),
\* clients.requested the credential the handler asked for.
ClientObjects == {"default", "user"}
DefaultClientOnly ==
    [cur |-> "default", requested |-> DefaultApiKey,
     api_key |-> [default |-> DefaultApiKey, user |-> NoKey],
     parked |-> NewClient(0)]

\* the state of object o
ClientObject(o) ==
    IF clients.cur = o
    THEN [rl |-> rl, quota_used |-> quota_used, quota_reset_time |-> quota_reset_time,
          memory_cache |-> memory_cache]
    ELSE clients.parked

\* ReturnedClient handing the module-level object to every caller
ReturnedClient_AlwaysDefault(api_key) == "default"

\* get_youtube_api: which object it returns
ReturnedClient(api_key) ==
    IF api_key # NoKey /\ Strip(api_key) # <<>> THEN "user" ELSE "default"

\* a handler calls get_youtube_api(api_key) while no call is in progress, and
\* makes its calls on the object returned
GetYoutubeApi(api_key) ==
    LET target == ReturnedClient(api_key)
        made == target = "user"
        held == ClientObject(clients.cur)
        state == IF made THEN NewClient(now) ELSE ClientObject("default")
    IN  /\ \A c \in Procs : pc[c] = "idle"
        /\ clients' =
               [cur |-> target,
                requested |-> IF Strip(api_key) # <<>> THEN Strip(api_key)
                              ELSE DefaultApiKey,
                api_key |-> [clients.api_key EXCEPT
                                !.user = IF made THEN Strip(api_key) ELSE @],
                parked |-> IF clients.cur # target THEN held ELSE clients.parked]
        /\ rl' = state.rl
        /\ quota_used' = state.quota_used
        /\ quota_reset_time' = state.quota_reset_time
        /\ memory_cache' = state.memory_cache
        /\ UNCHANGED <<clockVars, calls, lock_holder, lock_waiters, procVars, configVars,
                       adaptive, keylog, redis, cop, last_set, upstream_calls, batch,
                       search>>

\* ------------------------------------------------------- cache keys
\* PYTHONHASHSEED is random for each process unless it is set: a seed stands
\* for one run of a process
Seeds == {"s1", "s2"}
\* hash(s) of a str in a process with that seed, as the digits it formats to
PyHash(seed, s) == <<"#", seed>> \o s

\* the public methods that derive a cache key, and those that use hash()
KeyMethods ==
    {"search_videos", "get_video_details", "get_channel_details", "search_channels",
     "get_video_comments", "get_video_captions", "get_trending_videos",
     "get_video_categories"}
HashedMethods ==
    {"search_videos", "get_video_details", "get_channel_details", "search_channels"}
KeyPrefix(method) ==
    CASE method = "search_videos" -> "search"
      [] method = "get_video_details" -> "video_details"
      [] method = "get_channel_details" -> "channel_details"
      [] method = "search_channels" -> "channel_search"
      [] method = "get_video_comments" -> "comments"
      [] method = "get_video_captions" -> "captions"
      [] method = "get_trending_videos" -> "trending"
      [] method = "get_video_categories" -> "categories"
\* the parameters of a call, joined as the method's f-string joins them
ParamStrings == {<<"p">>, <<"p", ":", "q">>}

\* the cache_key a method derives from its parameters
MethodKey(method, params, seed) ==
    <<KeyPrefix(method), ":">>
        \o (IF method \in HashedMethods THEN PyHash(seed, params) ELSE params)

NoDerivation == [seed |-> "none", method |-> "none", params |-> <<>>, key |-> <<>>]
NoKeylog == [last |-> NoDerivation, prev |-> NoDerivation]

\* a client object in a process with that seed derives the key of a call and
\* the CacheManager key for it
DeriveKey(seed, method, params) ==
    /\ keylog' = [last |-> [seed |-> seed, method |-> method, params |-> params,
                            key |-> GenerateCacheKey(MethodKey(method, params, seed))],
                  prev |-> keylog.last]
    /\ UNCHANGED <<clockVars, calls, limVars, procVars, configVars, adaptive, clients,
                   cacheVars, quotaVars, upstream_calls, batch, search>>

InitCommon ==
    /\ now = 0
    /\ ticks = 0
    /\ calls = 0
    /\ rl = NewLimiter(0)
    /\ lock_holder = 0
    /\ lock_waiters = <<>>
    /\ pc = [c \in Procs |-> "idle"]
    /\ call = [c \in Procs |-> NoCall]
    /\ wake_at = [c \in Procs |-> 0]
    /\ ret = NoRet
    /\ memory_cache = <<>>
    /\ cop = NoCop
    /\ last_set = [k \in Keys |-> NoSet]
    /\ quota_used = 0
    /\ quota_reset_time = Day
    /\ upstream_calls = 0
    /\ adaptive = NewAdaptive
    /\ clients = DefaultClientOnly
    /\ keylog = NoKeylog

\* ------------------------------------------- the limiter on its own
InitLimiter ==
    /\ InitCommon
    /\ redis = NoRedis
    /\ enable_caching = TRUE
    /\ quota_limit = QuotaLimit
    /\ batch = NoBatch
    /\ search = NoSearch

NextLimiter ==
    \/ \E c \in Procs, tokens \in TokenArgs : Acquire(c, tokens)
    \/ \E c \in Procs, tokens \in TokenArgs : TryAcquire(c, tokens)
    \/ \E c \in Procs : Reset(c)
    \/ \E c \in Procs : LockGranted(c, NoResponse)
    \/ \E c \in Procs : Wake(c, NoResponse)
    \/ \E d \in TimeSteps : Tick(d)

SpecLimiter == InitLimiter /\ [][NextLimiter]_vars

\* ---------------------------------- the limiter over a refill window
MaxWindowTicks == 3     \* number of times the clock is advanced
\* by how much the clock may advance at once: 1 s, 20 s, 40 s
WindowSteps == {BurstWindow, MinuteWindow \div 3, 2 * (MinuteWindow \div 3)}

\* the clock advances by d
Pass(d) ==
    /\ ticks < MaxWindowTicks
    /\ now' = now + d
    /\ ticks' = ticks + 1
    /\ UNCHANGED <<calls, limVars, procVars, configVars, adaptive, clients, keylog, cacheVars, quotaVars,
                   upstream_calls, batch, search>>

NextWindow ==
    \/ \E c \in Procs, tokens \in TokenArgs : Acquire(c, tokens)
    \/ \E c \in Procs, tokens \in TokenArgs : TryAcquire(c, tokens)
    \/ \E c \in Procs : LockGranted(c, NoResponse)
    \/ \E c \in Procs : Wake(c, NoResponse)
    \/ \E d \in WindowSteps : Pass(d)

SpecWindow == InitLimiter /\ [][NextWindow]_vars

\* ------------------------------------- the adaptive limiter's feedback
MaxRecords == 12        \* number of record_success / record_error calls

adaptiveFrame == <<calls, limVars, procVars, configVars, clients, keylog, cacheVars, quotaVars,
                   upstream_calls, batch, search>>

\* await limiter.record_success()
RecordSuccess ==
    /\ adaptive.error_count + adaptive.success_count < MaxRecords
    /\ adaptive' = [adaptive EXCEPT !.success_count = @ + 1,
                                    !.adaptive_delay = SuccessDelay(@),
                                    !.last_op = "record_success",
                                    !.error_type = NoErrorType]
    /\ UNCHANGED <<clockVars, adaptiveFrame>>

\* await limiter.record_error(error_type)
RecordError(error_type) ==
    /\ adaptive.error_count + adaptive.success_count < MaxRecords
    /\ adaptive' = [adaptive EXCEPT !.error_count = @ + 1,
                                    !.last_error_time = now,
                                    !.adaptive_delay = ErrorDelay(@, error_type),
                                    !.last_op = "record_error",
                                    !.error_type = error_type]
    /\ UNCHANGED <<clockVars, adaptiveFrame>>

NextAdaptive ==
    \/ RecordSuccess
    \/ \E error_type \in ErrorTypes : RecordError(error_type)
    \/ Tick(BurstWindow)

SpecAdaptive == InitLimiter /\ [][NextAdaptive]_vars

\* ------------------------------------------------ the cache on its own
\* by how much the clock may advance at once: 1 s
CacheSteps == {DsPerSecond}

\* a direct call of a CacheManager method
CacheCall ==
    /\ calls < MaxCalls
    /\ calls' = calls + 1
    /\ UNCHANGED <<clockVars, limVars, procVars, configVars, adaptive, clients, keylog, quotaVars,
                   upstream_calls, batch, search>>

ExpirySet(mc) == {mc[i].expires_at : i \in 1..Len(mc)}
KeySet(mc) == {mc[i].key : i \in 1..Len(mc)}

\* await cache_manager.set(key, value, ttl); ttl = 0 stands for ttl=None
Set(key, value, ttl) ==
    \E o \in RedisOutcomes(redis) :
        LET r == TieredSet(memory_cache, redis, key, value, ttl, now, enable_caching, o)
            in_memory == enable_caching /\ ~(redis.client /\ o = "ok")
            unexpired == RemoveExpired(memory_cache, now)
            survivors == CleanupMemoryCache(memory_cache, now)
            evicted == SelectSeq(unexpired, LAMBDA e : e.key \notin KeySet(survivors))
        IN  /\ CacheCall
            /\ memory_cache' = r.mc
            /\ redis' = r.rd
            /\ cop' = [fn |-> "set", key |-> key, value |-> value, ttl |-> ttl,
                       result |-> r.value, at |-> now,
                       evicted |-> IF in_memory THEN ExpirySet(evicted) ELSE {},
                       kept |-> IF in_memory THEN ExpirySet(survivors) ELSE {},
                       raised |-> r.raised, failed |-> r.failed,
                       keys |-> <<>>, reaped |-> {}]
            /\ last_set' = [last_set EXCEPT ![key] = [at |-> now, ttl |-> ttl, read |-> FALSE]]

\* await cache_manager.get(key)
Get(key) ==
    \E o \in RedisOutcomes(redis) :
        LET r == TieredGet(memory_cache, redis, key, now, enable_caching, o)
        IN  /\ CacheCall
            /\ memory_cache' = r.mc
            /\ UNCHANGED redis
            /\ cop' = [NoCop EXCEPT !.fn = "get", !.key = key, !.result = r.value,
                                    !.at = now, !.raised = r.raised, !.failed = r.failed,
                                    !.reaped = KeySet(memory_cache) \ KeySet(r.mc)]
            /\ last_set' = [last_set EXCEPT ![key].read =
                               @ \/ (cop.fn = "set" /\ cop.key = key /\ cop.at = now
                                     /\ r.value = cop.value)]

\* await cache_manager.delete(key)
Delete(key) ==
    \E o \in RedisOutcomes(redis) :
        LET r == TieredDelete(memory_cache, redis, key, now, o)
        IN  /\ CacheCall
            /\ memory_cache' = r.mc
            /\ redis' = r.rd
            /\ cop' = [NoCop EXCEPT !.fn = "delete", !.key = key, !.result = r.value,
                                    !.at = now, !.failed = r.failed]
            /\ UNCHANGED last_set

\* await cache_manager.exists(key)
Exists(key) ==
    \E o \in RedisOutcomes(redis) :
        LET r == TieredExists(memory_cache, redis, key, now, o)
        IN  /\ CacheCall
            /\ memory_cache' = r.mc /\ UNCHANGED redis
            /\ cop' = [NoCop EXCEPT !.fn = "exists", !.key = key, !.result = r.value,
                                    !.at = now, !.failed = r.failed,
                                    !.reaped = KeySet(memory_cache) \ KeySet(r.mc)]
            /\ UNCHANGED last_set

\* await cache_manager.get_many(keys)
GetMany(keys) ==
    \E os \in [1..Len(keys) -> RedisOutcomes(redis)] :
        LET r == CacheGetMany(memory_cache, redis, keys, now, enable_caching, os)
        IN  /\ CacheCall
            /\ memory_cache' = r.mc
            /\ UNCHANGED redis
            /\ cop' = [NoCop EXCEPT !.fn = "get_many", !.keys = keys, !.result = r.value,
                                    !.at = now,
                                    !.reaped = KeySet(memory_cache) \ KeySet(r.mc)]
            /\ UNCHANGED last_set

\* await cache_manager.clear_pattern(pattern)
ClearPattern(pattern) ==
    LET r == CacheClearPattern(memory_cache, pattern)
    IN  /\ CacheCall
        /\ memory_cache' = r.mc /\ UNCHANGED redis
        /\ cop' = [NoCop EXCEPT !.fn = "clear_pattern", !.key = pattern,
                                !.result = r.value, !.at = now]
        /\ UNCHANGED last_set

InitCache ==
    /\ InitCommon
    /\ redis = NoRedis
    /\ enable_caching \in BOOLEAN
    /\ quota_limit = QuotaLimit
    /\ batch = NoBatch
    /\ search = NoSearch

NextCache ==
    \/ \E key \in Keys, value \in Payloads, ttl \in TtlArgs : Set(key, value, ttl)
    \/ \E key \in Keys : Get(key)
    \/ \E key \in Keys : Delete(key)
    \/ \E key \in Keys : Exists(key)
    \/ \E pattern \in Patterns : ClearPattern(pattern)
    \/ \E d \in CacheSteps : Tick(d)

SpecCache == InitCache /\ [][NextCache]_vars

\* ------------------------------------------- the readers of the cache
\* the keys argument of get_many
KeyLists == {<<<<"a">>, <<"b">>>>, <<<<"b">>, <<"a", "b">>, <<"a">>>>}
\* the value argument of set
ReadPayloads == {Dict(TRUE, <<1>>, NoToken)}

NextReads ==
    \/ \E key \in Keys, value \in ReadPayloads, ttl \in TtlArgs : Set(key, value, ttl)
    \/ \E key \in Keys : Get(key)
    \/ \E key \in Keys : Exists(key)
    \/ \E keys \in KeyLists : GetMany(keys)
    \/ \E d \in CacheSteps : Tick(d)

SpecReads == InitCache /\ [][NextReads]_vars

\* --------------------------------------------- the client (orchestrator)
\* the cache keys the wrapper's operations derive, and None
RequestKeys == {NoKey, <<"a">>}
\* by how much the clock may advance at once: 1 s, 1 day
ClientSteps == {BurstWindow, Day}

Init ==
    /\ InitCommon
    /\ redis = NoRedis
    /\ enable_caching \in BOOLEAN
    /\ quota_limit = QuotaLimit
    /\ batch = NoBatch
    /\ search = NoSearch

Next ==
    \/ \E c \in Procs, operation \in Operations, key \in RequestKeys, resp \in ClientResponses :
           Request(c, operation, key, resp)
    \/ \E c \in Procs, resp \in ClientResponses : LockGranted(c, resp)
    \/ \E c \in Procs, resp \in ClientResponses : Wake(c, resp)
    \/ \E d \in ClientSteps : Tick(d)

Spec == Init /\ [][Next]_vars

\* ------------------------------------------- batch_get_video_details
BatchSize == 50         \* batch_size
MaxIdsPerRequest == 50  \* video_ids[:50] in get_video_details
BatchDelay == 1         \* asyncio.sleep(0.1) between batches
Runner == 1             \* the task running the coroutine
\* the lengths of the ID list passed in; the IDs are 1..n
IdCounts == {0, 1, BatchSize - 1, BatchSize, BatchSize + 1, 2 * BatchSize, 137}
VideoIds(n) == [j \in 1..n |-> j]

\* Python s[from:to] for 0 <= from
Slice(s, from, to) == SubSeq(s, from + 1, Min(to, Len(s)))

\* BatchIds slicing from the start of the list
BatchIds_FromStart(video_ids, i) == Slice(video_ids, 0, i + BatchSize)

\* video_ids[i:i + batch_size]
BatchIds(video_ids, i) == Slice(video_ids, i, i + BatchSize)

\* f"video_details:{hash(video_ids_str)}": the hash stands for the ID string
VideoDetailsKey(ids) == <<"video_details", ids>>

\* what videos().list(id=ids).execute() may do: every video found, some
\* not found, a dict without 'items', an empty dict, a quota error
VideoResponses(ids) ==
    [kind : {"ok"}, status : {200}, quota : {FALSE}, absent : {FALSE},
     body : {Dict(TRUE, ids, NoToken),
             Dict(TRUE, SelectSeq(ids, LAMBDA v : v % 2 = 1), NoToken),
             Dict(FALSE, <<>>, NoToken), EmptyDict}]
    \cup {r \in HttpErrors : r.status = 403 /\ r.quota /\ ~r.absent}

batchFrame == <<clockVars, calls, configVars, adaptive, clients, keylog, cop, last_set, search>>

\* batch_get_video_details(video_ids) is called
BatchStart(n) ==
    /\ batch.pc = "off"
    /\ pc[Runner] = "idle"
    /\ batch' = [NoBatch EXCEPT !.pc = "loop", !.video_ids = VideoIds(n)]
    /\ UNCHANGED <<clockVars, calls, limVars, procVars, configVars, adaptive, clients, keylog, cacheVars,
                   quotaVars, upstream_calls, search>>

\* get_video_details(video_ids) called by the batch, up to its first suspension
GetVideoDetails(video_ids) ==
    IF video_ids = <<>>
    THEN /\ ret' = Returned(Runner, NoCall, Dict(TRUE, <<>>, NoToken))
         /\ batch' = [batch EXCEPT !.pc = "wait"]
         /\ UNCHANGED <<limVars, pc, call, wake_at, memory_cache, redis, quotaVars,
                        upstream_calls>>
    ELSE LET ids == Slice(video_ids, 0, MaxIdsPerRequest)
         IN  /\ \E resp \in VideoResponses(ids) :
                    MakeRequest(Runner, "videos", VideoDetailsKey(ids), resp)
             /\ batch' = [batch EXCEPT !.pc = "wait", !.requests = Append(@, ids)]

\* `for i in range(0, len(video_ids), batch_size)`: the next batch, or the return
BatchLoop ==
    /\ batch.pc = "loop"
    /\ IF batch.i < Len(batch.video_ids)
       THEN GetVideoDetails(BatchIds(batch.video_ids, batch.i))
       ELSE /\ batch' = [batch EXCEPT !.pc = "returned"]
            /\ UNCHANGED <<limVars, procVars, memory_cache, redis, quotaVars, upstream_calls>>
    /\ UNCHANGED batchFrame

\* get_video_details has returned or raised: extend all_videos, sleep if
\* more batches follow
BatchResume ==
    /\ batch.pc = "wait"
    /\ pc[Runner] = "idle"
    /\ IF ret.kind = "raise"
       THEN batch' = [batch EXCEPT !.pc = "raised"]
       ELSE LET items == IF ret.value.has_items THEN ret.value.items ELSE <<>>
                more == batch.i + BatchSize < Len(batch.video_ids)
            IN  batch' = [batch EXCEPT !.all_videos = @ \o items,
                                       !.results = Append(@, items),
                                       !.i = @ + BatchSize,
                                       !.pc = IF more THEN "sleep" ELSE "loop",
                                       !.wake = IF more THEN now + BatchDelay ELSE @]
    /\ UNCHANGED <<limVars, procVars, memory_cache, redis, quotaVars, upstream_calls>>
    /\ UNCHANGED batchFrame

\* asyncio.sleep(0.1) is over
BatchSleepDone ==
    /\ batch.pc = "sleep"
    /\ now >= batch.wake
    /\ batch' = [batch EXCEPT !.pc = "loop"]
    /\ UNCHANGED <<limVars, procVars, memory_cache, redis, quotaVars, upstream_calls>>
    /\ UNCHANGED batchFrame

\* the sub-call's acquire wakes up from its sleep
BatchWake ==
    /\ batch.pc = "wait"
    /\ pc[Runner] = "sleeping"
    /\ \E resp \in VideoResponses(batch.requests[Len(batch.requests)]) : Wake(Runner, resp)

\* the pending asyncio.sleep timers
Timers ==
    {wake_at[c] : c \in {d \in Procs : pc[d] = "sleeping"}}
    \cup (IF batch.pc = "sleep" THEN {batch.wake} ELSE {})

\* nothing can run: time passes until the first timer is due
Elapse ==
    /\ Timers # {}
    /\ \A t \in Timers : t > now
    /\ now' = CHOOSE t \in Timers : \A u \in Timers : t <= u
    /\ UNCHANGED <<ticks, calls, limVars, procVars, configVars, adaptive, clients, keylog, cacheVars, quotaVars,
                   upstream_calls, batch, search>>

InitBatch ==
    /\ InitCommon
    /\ redis = NoRedis
    /\ enable_caching \in BOOLEAN
    /\ quota_limit = QuotaLimit
    /\ batch = NoBatch
    /\ search = NoSearch

NextBatch ==
    \/ \E n \in IdCounts : BatchStart(n)
    \/ BatchLoop
    \/ BatchResume
    \/ BatchSleepDone
    \/ BatchWake
    \/ Elapse

SpecBatch == InitBatch /\ [][NextBatch]_vars

\* --------------------------- get_video_details and get_channel_details
LookupMethods == {"get_video_details", "get_channel_details"}
\* the operation a lookup method passes to _make_request
LookupOperation(method) == IF method = "get_video_details" THEN "videos" ELSE "channels"
\* f"channel_details:{hash(channel_ids_str)}": the hash stands for the ID string
ChannelDetailsKey(ids) == <<"channel_details", ids>>
LookupKey(method, ids) ==
    IF method = "get_video_details" THEN VideoDetailsKey(ids) ELSE ChannelDetailsKey(ids)

\* get_video_details(ids) or get_channel_details(ids) called by a handler with
\* a list of n IDs, up to its first suspension; batch.requests logs the ID
\* list of the request it builds
Lookup(method, n) ==
    LET all_ids == VideoIds(n)
        ids == Slice(all_ids, 0, MaxIdsPerRequest)
    IN  /\ batch.pc \in {"off", "direct"}
        /\ pc[Runner] = "idle"
        /\ calls < MaxCalls
        /\ calls' = calls + 1
        /\ IF all_ids = <<>>
           THEN /\ ret' = Returned(Runner, NoCall, Dict(TRUE, <<>>, NoToken))
                /\ batch' = [NoBatch EXCEPT !.pc = "direct", !.video_ids = all_ids]
                /\ UNCHANGED <<limVars, pc, call, wake_at, memory_cache, redis, quotaVars,
                               upstream_calls>>
           ELSE /\ \E resp \in VideoResponses(ids) :
                       MakeRequest(Runner, LookupOperation(method),
                                   LookupKey(method, ids), resp)
                /\ batch' = [NoBatch EXCEPT !.pc = "direct", !.video_ids = all_ids,
                                            !.requests = <<ids>>]
        /\ UNCHANGED <<clockVars, configVars, adaptive, clients, keylog, cop, last_set,
                       search>>

\* the lookup's acquire wakes up from its sleep
LookupWake ==
    /\ batch.pc = "direct"
    /\ pc[Runner] = "sleeping"
    /\ \E resp \in VideoResponses(batch.requests[1]) : Wake(Runner, resp)

NextLookup ==
    \/ \E method \in LookupMethods, n \in IdCounts : Lookup(method, n)
    \/ LookupWake
    \/ Elapse

SpecLookup == InitBatch /\ [][NextLookup]_vars

\* ----------------------------------------------------- search_videos
PageLimit == 50         \* the provider's page size limit
\* the max_results argument
MaxResultsArgs == {PageLimit, PageLimit + 1, 2 * PageLimit, 120}
ContinuationToken == <<"t">>

\* f"search:{hash(...)}": the hash stands for the parameter string
SearchKey(max_results) == <<"search", max_results>>

\* the items of the p-th page fetched, when it holds k of them
PageItems(p, k) == [j \in 1..k |-> 100 * p + j]
\* how many items a page may hold when maxResults is m
PageSizes(m) == {0, 1, m - 1, m} \cap 0..m

\* what search().list(maxResults=m).execute() may do for the p-th request
PageResponses(m, p) ==
    [kind : {"ok"}, status : {200}, quota : {FALSE}, absent : {FALSE},
     body : {Dict(TRUE, PageItems(p, k), tk) :
                 k \in PageSizes(m), tk \in {NoToken, ContinuationToken}}
            \cup {Dict(FALSE, <<>>, ContinuationToken), EmptyDict}]
    \cup {r \in HttpErrors : r.status = 403 /\ r.quota /\ ~r.absent}

searchFrame == <<clockVars, calls, configVars, adaptive, clients, keylog, cop, last_set, batch>>

\* search_videos(query, max_results), up to the first suspension of its
\* first _make_request
SearchStart(max_results) ==
    LET requested == Min(max_results, PageLimit)
    IN  /\ search.pc = "off"
        /\ pc[Runner] = "idle"
        /\ \E resp \in PageResponses(requested, 1) :
               MakeRequest(Runner, "search", SearchKey(max_results), resp)
        /\ search' = [NoSearch EXCEPT !.pc = "first", !.max_results = max_results,
                                      !.requested = requested, !.issued = 1]
        /\ UNCHANGED searchFrame

\* search_videos(query, max_results) called a second time with the arguments
\* of the call that has returned
SearchAgain ==
    LET requested == Min(search.max_results, PageLimit)
    IN  /\ search.pc = "returned" /\ ~search.again
        /\ pc[Runner] = "idle"
        /\ \E resp \in PageResponses(requested, 1) :
               MakeRequest(Runner, "search", SearchKey(search.max_results), resp)
        /\ search' = [NoSearch EXCEPT !.pc = "first", !.max_results = search.max_results,
                                      !.requested = requested, !.issued = 1,
                                      !.again = TRUE,
                                      !.hit = /\ ret'.n # ret.n /\ ret'.kind = "return"
                                              /\ ret'.upstream = None,
                                      !.first_items = search.result.items]
        /\ UNCHANGED searchFrame

\* all_items.extend(items), seen through the cache when the first page's
\* dict is the object the cache holds
ExtendCached(mc, max_results, all_items) ==
    LET ck == GenerateCacheKey(SearchKey(max_results))
    IN  IF HasKey(mc, ck)
        THEN [mc EXCEPT ![IndexOf(mc, ck)].value.items = all_items]
        ELSE mc

\* the first _make_request has returned or raised (lines 192-198)
SearchFirstDone ==
    /\ search.pc = "first"
    /\ pc[Runner] = "idle"
    /\ IF ret.kind = "raise"
       THEN search' = [search EXCEPT !.pc = "raised", !.exc = ret.value.exc]
       ELSE LET result == ret.value
                logged == [search EXCEPT !.result = result,
                               !.pages = Append(@, [items |-> result.items,
                                                    token |-> result.nextPageToken])]
            IN  IF search.max_results > PageLimit /\ result.nextPageToken # NoToken
                THEN IF ~result.has_items
                     THEN search' = [logged EXCEPT !.pc = "raised", !.exc = "KeyError"]
                     ELSE search' = [logged EXCEPT
                                        !.pc = "loop",
                                        !.all_items = result.items,
                                        !.next_page_token = result.nextPageToken,
                                        !.remaining_results = search.max_results - PageLimit,
                                        !.aliased = enable_caching]
                ELSE search' = [logged EXCEPT !.pc = "returned"]
    /\ UNCHANGED <<limVars, procVars, memory_cache, redis, quotaVars, upstream_calls>>
    /\ UNCHANGED searchFrame

\* `while next_page_token and remaining_results > 0`: the next page is
\* requested, or the loop ends and the result is returned (lines 200-213)
SearchLoop ==
    /\ search.pc = "loop"
    /\ IF search.next_page_token # NoToken /\ search.remaining_results > 0
       THEN LET requested == Min(search.remaining_results, PageLimit)
            IN  /\ \E resp \in PageResponses(requested, search.issued + 1) :
                       MakeRequest(Runner, "search", NoKey, resp)
                /\ search' = [search EXCEPT !.pc = "wait", !.requested = requested,
                                            !.issued = @ + 1]
       ELSE /\ search' = [search EXCEPT !.pc = "returned",
                                        !.result.items = search.all_items]
            /\ UNCHANGED <<limVars, procVars, memory_cache, redis, quotaVars, upstream_calls>>
    /\ UNCHANGED searchFrame

\* a page's _make_request has returned or raised (lines 205-209)
SearchPageDone ==
    /\ search.pc = "wait"
    /\ pc[Runner] = "idle"
    /\ IF ret.kind = "raise"
       THEN /\ search' = [search EXCEPT !.pc = "raised", !.exc = ret.value.exc]
            /\ UNCHANGED <<memory_cache, redis>>
       ELSE LET page_result == ret.value
                all_items == search.all_items \o page_result.items
            IN  IF ~page_result.has_items
                THEN /\ search' = [search EXCEPT !.pc = "raised", !.exc = "KeyError"]
                     /\ UNCHANGED <<memory_cache, redis>>
                ELSE /\ search' = [search EXCEPT
                                      !.pc = "loop",
                                      !.all_items = all_items,
                                      !.next_page_token = page_result.nextPageToken,
                                      !.remaining_results = @ - Len(page_result.items),
                                      !.pages = Append(@, [items |-> page_result.items,
                                                           token |-> page_result.nextPageToken])]
                     /\ memory_cache' =
                            IF search.aliased
                            THEN ExtendCached(memory_cache, search.max_results, all_items)
                            ELSE memory_cache
                     /\ UNCHANGED redis
    /\ UNCHANGED <<limVars, procVars, quotaVars, upstream_calls>>
    /\ UNCHANGED searchFrame

\* the acquire of the request in flight wakes up from its sleep
SearchWake ==
    /\ search.pc \in {"first", "wait"}
    /\ pc[Runner] = "sleeping"
    /\ \E resp \in PageResponses(search.requested, search.issued) : Wake(Runner, resp)

InitSearch ==
    /\ InitCommon
    /\ redis = NoRedis
    /\ enable_caching \in BOOLEAN
    /\ quota_limit \in {QuotaLimit, 5 * QuotaLimit}
    /\ batch = NoBatch
    /\ search = NoSearch

NextSearch ==
    \/ \E max_results \in MaxResultsArgs : SearchStart(max_results)
    \/ SearchFirstDone
    \/ SearchLoop
    \/ SearchPageDone
    \/ SearchWake
    \/ Elapse

SpecSearch == InitSearch /\ [][NextSearch]_vars

\* ------------------------------- search_videos under a fair event loop
\* The event loop runs the coroutine whenever it can continue, and time
\* passes while its request sleeps in the limiter.
\* what a step of the coroutine or of the clock changes
progressVars == <<now, rl, pc, wake_at, quota_used, quota_reset_time, search>>
FairSearch ==
    /\ WF_progressVars(SearchFirstDone)
    /\ WF_progressVars(SearchLoop)
    /\ WF_progressVars(SearchPageDone)
    /\ WF_progressVars(SearchWake)
    /\ WF_progressVars(Elapse)

SpecSearchLive == InitSearch /\ [][NextSearch]_vars /\ FairSearch

\* --------------------------------------- search_videos called twice
NextRepeat ==
    \/ \E max_results \in MaxResultsArgs : SearchStart(max_results)
    \/ SearchAgain
    \/ SearchFirstDone
    \/ SearchLoop
    \/ SearchPageDone
    \/ SearchWake
    \/ Elapse

SpecRepeat == InitSearch /\ [][NextRepeat]_vars

\* ------------------------------------- the client with a durable tier
\* A client object is set as redis_client and connected; each of its calls
\* may raise.
DurableKeys == {<<"a">>}
DurablePayloads == {Dict(TRUE, <<1>>, NoToken)}
DurableResponses ==
    {r \in OkResponses : r.body \in DurablePayloads}
    \cup {r \in HttpErrors : r.status = 403 /\ r.quota /\ ~r.absent}

InitDurable ==
    /\ InitCommon
    /\ redis = [client |-> TRUE, store |-> <<>>]
    /\ enable_caching = TRUE
    /\ quota_limit = QuotaLimit
    /\ batch = NoBatch
    /\ search = NoSearch

NextDurable ==
    \/ \E c \in Procs, operation \in Operations, key \in DurableKeys,
          resp \in DurableResponses : Request(c, operation, key, resp)
    \/ \E c \in Procs, resp \in DurableResponses : LockGranted(c, resp)
    \/ \E c \in Procs, resp \in DurableResponses : Wake(c, resp)
    \/ \E key \in DurableKeys, value \in Payloads : Set(key, value, 0)
    \/ \E key \in DurableKeys : Get(key)
    \/ Tick(BurstWindow)

SpecDurable == InitDurable /\ [][NextDurable]_vars

\* --------------------------------------- the two tiers of the cache
NextTiers ==
    \/ \E key \in DurableKeys, value \in Payloads, ttl \in TtlArgs : Set(key, value, ttl)
    \/ \E key \in DurableKeys : Get(key)
    \/ \E key \in DurableKeys : Delete(key)
    \/ \E key \in DurableKeys : Exists(key)
    \/ \E d \in CacheSteps : Tick(d)

SpecTiers == InitDurable /\ [][NextTiers]_vars

\* -------------------------------------- comments and captions of a video
VideoIds1 == {<<"v">>}
\* f"comments:{video_id}:{max_results}:{order}" with the default arguments
CommentsKey(video_id) == <<"comments", ":">> \o video_id \o <<":", "100", ":", "relevance">>
\* f"captions:{video_id}"
CaptionsKey(video_id) == <<"captions", ":">> \o video_id
\* what commentThreads().list(...).execute() and captions().list(...).execute()
\* may do: a page of items, or any error
WrapperResponses ==
    {r \in OkResponses : r.body = Dict(TRUE, <<1>>, NoToken)}
    \cup HttpErrors \cup OtherErrors

\* YouTubeAPIWrapper.get_video_comments(video_id)
GetVideoComments(c, video_id, resp) ==
    /\ StartCall(c)
    /\ MakeRequestFor(c, "get_video_comments", "comments", CommentsKey(video_id), resp)
    /\ UNCHANGED <<clockVars, configVars, adaptive, clients, keylog, cop, last_set, batch, search>>

\* YouTubeAPIWrapper.get_video_captions(video_id)
GetVideoCaptions(c, video_id, resp) ==
    /\ StartCall(c)
    /\ MakeRequestFor(c, "get_video_captions", "captions", CaptionsKey(video_id), resp)
    /\ UNCHANGED <<clockVars, configVars, adaptive, clients, keylog, cop, last_set, batch, search>>

InitWrappers ==
    /\ InitCommon
    /\ redis = NoRedis
    /\ enable_caching \in BOOLEAN
    /\ quota_limit \in {QuotaLimit, 5 * QuotaLimit}
    /\ batch = NoBatch
    /\ search = NoSearch

NextWrappers ==
    \/ \E c \in Procs, video_id \in VideoIds1, resp \in WrapperResponses :
           GetVideoComments(c, video_id, resp)
    \/ \E c \in Procs, video_id \in VideoIds1, resp \in WrapperResponses :
           GetVideoCaptions(c, video_id, resp)
    \/ \E c \in Procs, resp \in WrapperResponses : LockGranted(c, resp)
    \/ \E c \in Procs, resp \in WrapperResponses : Wake(c, resp)
    \/ \E d \in ClientSteps : Tick(d)

SpecWrappers == InitWrappers /\ [][NextWrappers]_vars

\* ------------------------------------------- the transcript of a video
\* a str returned by a method: the text of a caption track, or ""
Text(chars) == [text |-> chars]
\* what captions().download(...).execute() may do: the track, or any error
DownloadResponses ==
    {r \in OkResponses : r.body = Dict(TRUE, <<1>>, NoToken)}
    \cup {r \in HttpErrors : ~r.absent} \cup OtherErrors

\* get_video_transcript has awaited get_video_captions and found a track
CaptionsListed ==
    /\ ret.kind = "return" /\ ret.call.via = "get_video_captions"
    /\ ret.value.has_items /\ ret.value.items # <<>>

\* YouTubeAPIWrapper.download_caption(caption_id), called on its own (via
\* "none") or by get_video_transcript for the track it chose: the request is
\* executed at once, and every exception gives ""
DownloadCaption(c, via, resp) ==
    LET cl == [NoCall EXCEPT !.fn = "download_caption", !.via = via]
        text == IF resp.kind = "ok" THEN Text(<<"s", "r", "t">>) ELSE Text(<<>>)
    IN  /\ StartCall(c)
        /\ via = "get_video_transcript" => CaptionsListed
        /\ upstream_calls' = upstream_calls + 1
        /\ ret' = [Returned(c, cl, text) EXCEPT
                      !.response = resp,
                      !.swallowed = IF resp.kind = "ok" THEN NoSwallow
                                    ELSE [type |-> "Exception", mentions |-> FALSE]]
        /\ UNCHANGED <<clockVars, limVars, pc, call, wake_at, configVars, adaptive, clients,
                       keylog, cacheVars, quotaVars, batch, search>>

NextTranscript ==
    \/ \E c \in Procs, video_id \in VideoIds1, resp \in DownloadResponses :
           GetVideoCaptions(c, video_id, resp)
    \/ \E c \in Procs, via \in {"none", "get_video_transcript"},
          resp \in DownloadResponses : DownloadCaption(c, via, resp)
    \/ \E c \in Procs, resp \in DownloadResponses : LockGranted(c, resp)
    \/ \E c \in Procs, resp \in DownloadResponses : Wake(c, resp)
    \/ \E d \in ClientSteps : Tick(d)

SpecTranscript == InitWrappers /\ [][NextTranscript]_vars

\* --------------------------- the client against every upstream outcome
\* an operation of the cost table and one that is not in it
UpstreamOperations == {"search", "categories"}
\* what request_func.execute() may do: each payload, and an error of each
\* class that _make_request tells apart
UpstreamResponses == {r \in Responses : ~r.absent}
\* the cache_key argument; settings.enable_caching decides whether it is used
UpstreamKeys == {<<"a">>}

NextUpstream ==
    \/ \E c \in Procs, operation \in UpstreamOperations, key \in UpstreamKeys,
          resp \in UpstreamResponses : Request(c, operation, key, resp)
    \/ \E c \in Procs, resp \in UpstreamResponses : LockGranted(c, resp)
    \/ \E c \in Procs, resp \in UpstreamResponses : Wake(c, resp)
    \/ \E d \in ClientSteps : Tick(d)

SpecUpstream == Init /\ [][NextUpstream]_vars

\* ----------------------------------------- one client per credential
\* what request_func.execute() may do: a payload, a quota error
ClientsResponses ==
    {r \in ClientResponses : r.kind = "ok" => r.body = Dict(TRUE, <<1>>, NoToken)}
\* a call of one unit, whose object keeps quota for the next one
ClientsOperations == {"categories"}

InitClients ==
    /\ InitCommon
    /\ redis = NoRedis
    /\ enable_caching = TRUE
    /\ quota_limit = QuotaLimit
    /\ batch = NoBatch
    /\ search = NoSearch

NextClients ==
    \/ \E api_key \in ApiKeyArgs : GetYoutubeApi(api_key)
    \/ \E c \in Procs, operation \in ClientsOperations, key \in UpstreamKeys,
          resp \in ClientsResponses : Request(c, operation, key, resp)
    \/ \E c \in Procs, resp \in ClientsResponses : LockGranted(c, resp)
    \/ \E c \in Procs, resp \in ClientsResponses : Wake(c, resp)
    \/ \E d \in ClientSteps : Tick(d)

SpecClients == InitClients /\ [][NextClients]_vars

\* ------------------------------------------- the derivation of cache keys
NextKeys ==
    \E seed \in Seeds, method \in KeyMethods, params \in ParamStrings :
        DeriveKey(seed, method, params)

SpecKeys == InitLimiter /\ [][NextKeys]_vars

\* --------------------------------- the limiter under a fair event loop
\* the tokens arguments that every bucket can hold
FittingTokens == {tokens \in TokenArgs : ~(tokens > BurstLimit \/ tokens > CallsPerMinute
                                             \/ tokens > CallsPerHour)}

\* a second passes while no call is in progress
IdleTick ==
    /\ \A c \in Procs : pc[c] = "idle"
    /\ Tick(BurstWindow)

NextLive ==
    \/ \E c \in Procs, tokens \in FittingTokens : Acquire(c, tokens)
    \/ \E c \in Procs, tokens \in TokenArgs : TryAcquire(c, tokens)
    \/ \E c \in Procs : LockGranted(c, NoResponse)
    \/ \E c \in Procs : Wake(c, NoResponse)
    \/ IdleTick
    \/ Elapse

\* The event loop runs every task that is ready (the lock was released to it,
\* or its sleep is over), and time passes while all tasks sleep.
FairLoop ==
    /\ \A c \in Procs : WF_vars(LockGranted(c, NoResponse))
    /\ \A c \in Procs : WF_vars(Wake(c, NoResponse))
    /\ WF_vars(Elapse)

SpecLive == InitLimiter /\ [][NextLive]_vars /\ FairLoop

\* C1: after any sequence of acquire, try_acquire and reset calls (tokens >= 1)
\* and any passage of time, each of the burst, minute and hour counters is
\* >= 0 and <= its configured capacity.
C1_BucketsInRange ==
    /\ rl.burst_tokens >= 0 /\ rl.burst_tokens <= BurstLimit
    /\ rl.minute_tokens >= 0 /\ rl.minute_tokens <= CallsPerMinute
    /\ rl.hour_tokens >= 0 /\ rl.hour_tokens <= CallsPerHour

\* a drained minute bucket after time has passed and a call was granted
C1_Witness ==
    /\ now > 0
    /\ rl.minute_tokens = 0
    /\ rl.burst_tokens < BurstLimit
    /\ ret.kind = "return" /\ ret.value = Bool(TRUE)


\* ------------------------------------------------ steps of the client
\* a step in which a call starts
IsStart == calls' = calls + 1
\* a step in which a call completes
IsCompletion == ret'.n # ret.n
\* the call that starts in a start step
StartedCall ==
    IF IsCompletion THEN ret'.call
    ELSE LET c == CHOOSE d \in Procs : call'[d] # call[d] IN call'[c]
\* whether _make_request(operation, key) started now finds a value it returns
\* from the cache, and whether the cache holds a live entry for the key
ServedFromCache(key) ==
    /\ key # NoKey /\ enable_caching
    /\ Truthy(CacheGet(memory_cache, key, now, enable_caching).value)
HoldsLiveEntry(key) ==
    /\ key # NoKey /\ enable_caching
    /\ HasKey(memory_cache, GenerateCacheKey(key))
    /\ memory_cache[IndexOf(memory_cache, GenerateCacheKey(key))].expires_at > now
\* quota_used as the comparison of the quota check sees it
QuotaAtCheck == IF now > quota_reset_time THEN 0 ELSE quota_used
\* a step in which _make_request starts and reaches its quota check
IsQuotaCheck ==
    /\ IsStart
    /\ StartedCall.fn = "_make_request"
    /\ ~ServedFromCache(StartedCall.cache_key)
LocalQuotaMsg == "Daily quota limit exceeded"

\* C2: whenever quota_used + cost(operation) > quota_limit at the quota check of
\* _make_request (a cache miss), the call raises QuotaExceededException and
\* quota_used is left exactly as it was.
C2_QuotaRejectNoDeduction ==
    [][(IsQuotaCheck /\ QuotaAtCheck + OperationCost(StartedCall.operation) > quota_limit)
         => /\ IsCompletion
            /\ ret'.kind = "raise"
            /\ ret'.value = Exc("QuotaExceededException")
            /\ quota_used' = QuotaAtCheck]_vars

\* a call rejected by the local quota check while some quota is used
C2_Witness ==
    /\ ret.kind = "raise" /\ ret.msg = LocalQuotaMsg
    /\ ret.call.operation = "search"
    /\ quota_used > 0 /\ quota_used < quota_limit

\* C3: a call rejected for exhausted quota deducts no token from any bucket,
\* appends no grant timestamp and issues no upstream request.
C3_QuotaRejectBeforeLimiter ==
    [][(IsCompletion /\ ret'.kind = "raise" /\ ret'.msg = LocalQuotaMsg)
         => /\ rl' = rl
            /\ upstream_calls' = upstream_calls
            /\ UNCHANGED <<lock_holder, lock_waiters, pc>>]_vars

\* a rejection by the local quota check after an earlier grant
C3_Witness ==
    /\ ret.kind = "raise" /\ ret.msg = LocalQuotaMsg
    /\ rl.request_timestamps # <<>>
    /\ upstream_calls > 0

\* C4: when caching is enabled and the cache holds a live entry for the
\* request's cache key, _make_request returns that entry and leaves quota_used,
\* the three token buckets and the grant timestamps unchanged, and issues no
\* upstream call.
C4_LiveEntryIsReturned ==
    [][(IsStart /\ StartedCall.fn = "_make_request" /\ HoldsLiveEntry(StartedCall.cache_key))
         => /\ IsCompletion
            /\ ret'.kind = "return"
            /\ ret'.value = memory_cache[IndexOf(memory_cache,
                                GenerateCacheKey(StartedCall.cache_key))].value
            /\ quota_used' = quota_used
            /\ rl' = rl
            /\ upstream_calls' = upstream_calls]_vars

\* C5: with caching enabled, set(k, v, ttl) with ttl > 0 followed at once by
\* get(k) returns v; once ttl seconds have passed since the last set(k), get(k)
\* returns the default (None).
C5_SetGetRoundTrip ==
    [][(IsStart /\ cop'.fn = "get" /\ enable_caching)
         => LET k == cop'.key
                ls == last_set[k]
            IN  /\ (cop.fn = "set" /\ cop.key = k /\ cop.ttl > 0 /\ cop.at = now)
                       => cop'.result = cop.value
                /\ (ls.ttl > 0 /\ now >= ls.at + ls.ttl * DsPerSecond)
                       => cop'.result = None]_vars

\* get(k) returned the value right after set(k, v, ttl), and None once ttl
\* seconds had passed
C5_Witness ==
    /\ enable_caching
    /\ cop.fn = "get" /\ cop.result = None
    /\ last_set[cop.key].read
    /\ last_set[cop.key].ttl > 0
    /\ now >= last_set[cop.key].at + last_set[cop.key].ttl * DsPerSecond

\* C6: after any sequence of set, get, delete, exists and clear_pattern calls,
\* memory_cache never holds more than memory_cache_max_size entries.
C6_SizeBound == Len(memory_cache) <= CacheMaxSize

\* a set on a full cache, which evicted an unexpired entry and left it full
C6_Witness ==
    /\ cop.fn = "set" /\ cop.evicted # {}
    /\ Len(memory_cache) = CacheMaxSize

\* C7: whenever a set evicts unexpired entries to make room, every evicted
\* entry expires no later than every entry that survives the eviction.
C7_SoonestExpiryFirst ==
    cop.fn = "set" => \A e \in cop.evicted, k \in cop.kept : e <= k

\* a set that evicted an entry expiring strictly before a survivor
C7_Witness ==
    /\ cop.fn = "set"
    /\ \E e \in cop.evicted, k \in cop.kept : e < k

\* ceil(a / b) for a >= 0, b > 0
CeilDiv(a, b) == (a + b - 1) \div b
\* the concatenation of a sequence of sequences
RECURSIVE Flatten(_)
Flatten(ss) == IF ss = <<>> THEN <<>> ELSE Head(ss) \o Flatten(Tail(ss))

\* C9: batch_get_video_details on n IDs (no cache hits) issues its sub-calls in
\* order, sub-call j (from 0) carrying exactly the IDs at positions
\* 50j..min(50j+49, n-1); when it returns it has issued exactly ceil(n/50)
\* sub-calls and returns their item lists concatenated in sub-call order.
C9_BatchChunks ==
    LET n == Len(batch.video_ids)
    IN  /\ Len(batch.requests) <= CeilDiv(n, 50)
        /\ \A j \in 1..Len(batch.requests) :
               batch.requests[j] =
                   [k \in 1..(Min(50 * j, n) - 50 * (j - 1)) |->
                        batch.video_ids[50 * (j - 1) + k]]
        /\ batch.pc = "returned" =>
               /\ Len(batch.requests) = CeilDiv(n, 50)
               /\ Len(batch.results) = Len(batch.requests)
               /\ batch.all_videos = Flatten(batch.results)

\* 137 IDs were fetched in chunks of 50, 50 and 37 and all 137 items returned
C9_Witness ==
    /\ batch.pc = "returned"
    /\ Len(batch.video_ids) = 137
    /\ Len(batch.requests) = 3
    /\ Len(batch.requests[3]) = 37
    /\ Len(batch.all_videos) = 137
    /\ upstream_calls = 3

\* no ID at all: the call returns without any sub-call
C9_WitnessEmpty ==
    /\ batch.pc = "returned"
    /\ batch.video_ids = <<>>
    /\ batch.requests = <<>>
    /\ batch.all_videos = <<>>

\* the items of the pages of a search_videos call, in arrival order
ArrivedItems == Flatten([j \in 1..Len(search.pages) |-> search.pages[j].items])

\* C10: search_videos with max_results = N > 50 issues at most ceil(N/50)
\* orchestrated calls, issues none after a page without continuation token,
\* and returns at most N items, in page-arrival order, whatever pages (of at
\* most the requested maxResults items) the provider returns.
C10_PaginationBound ==
    LET N == search.max_results
    IN  (search.pc # "off" /\ N > 50) =>
            /\ search.issued <= CeilDiv(N, 50)
            /\ \A j \in 1..Len(search.pages) :
                   search.pages[j].token = NoToken => search.issued <= j
            /\ search.pc = "returned" =>
                   /\ Len(search.result.items) <= N
                   /\ search.result.items = ArrivedItems

Oversized(tokens) ==
    tokens > BurstLimit \/ tokens > CallsPerMinute \/ tokens > CallsPerHour
\* the task holding the lock is asleep and its sleep is not over
HolderAsleep ==
    /\ lock_holder # 0
    /\ pc[lock_holder] = "sleeping"
    /\ wake_at[lock_holder] > now
\* a step in which reset() runs
IsReset == IsCompletion /\ ret'.call.fn = "reset"
\* a step in which a task runs the refill-check-deduct step of acquire or
\* try_acquire: it has the lock, and the step is not a queueing for the lock,
\* a reset or the clock advancing
IsAdmissionCheck ==
    /\ now' = now
    /\ Len(lock_waiters') <= Len(lock_waiters)
    /\ ~IsReset
\* the call that runs the admission check of such a step
CheckedCall ==
    IF IsCompletion THEN ret'.call ELSE call'[lock_holder']

\* C16: acquire(tokens) with tokens greater than the capacity of some bucket is
\* rejected explicitly instead of waiting: it is never found asleep inside
\* acquire, and no other caller of the limiter queues behind it.
C16_OversizedRejected ==
    \A c \in Procs :
        (call[c].fn = "acquire" /\ Oversized(call[c].tokens))
            => /\ pc[c] # "sleeping"
               /\ ~(lock_holder = c /\ lock_waiters # <<>>)

\* C17: try_acquire returns its boolean without waiting for time to pass, in
\* every state of the limiter: it is never found waiting for the lock while
\* the holder of the lock sleeps for tokens.
C17_TryAcquireNeverWaits ==
    \A c \in Procs :
        call[c].fn = "try_acquire" => ~(pc[c] = "lock_wait" /\ HolderAsleep)

\* C18: for every interleaving of acquire and try_acquire callers, at most one
\* caller is inside the refill-check-deduct step at a time (a caller that
\* stays inside across steps holds the lock, and it is the only one), and the
\* tokens a step deducts from a bucket never exceed what the bucket held
\* after its refill.
C18_OneCallerInside ==
    [][/\ \A c, d \in Procs :
              (pc'[c] = "sleeping" /\ pc'[d] = "sleeping") => c = d
       /\ \A c \in Procs : pc'[c] = "sleeping" <=> lock_holder' = c
       /\ \A i \in 1..Len(lock_waiters') : pc'[lock_waiters'[i]] = "lock_wait"
       /\ IsAdmissionCheck =>
              LET L1 == RefillTokens(rl, now)
              IN  /\ L1.burst_tokens - rl'.burst_tokens \in 0..L1.burst_tokens
                  /\ L1.minute_tokens - rl'.minute_tokens \in 0..L1.minute_tokens
                  /\ L1.hour_tokens - rl'.hour_tokens \in 0..L1.hour_tokens]_vars

\* one caller sleeps inside acquire while the other waits for the lock, after
\* an earlier grant
C18_Witness ==
    /\ \E c, d \in Procs : pc[c] = "sleeping" /\ pc[d] = "lock_wait"
    /\ rl.request_timestamps # <<>>

\* C19: each admission step deducts the same number of tokens (0, or the
\* tokens of the call) from all three buckets; a try_acquire returning False
\* and a failed check inside acquire leave the three counters at their
\* post-refill values.  By induction the totals deducted from the three
\* buckets since construction or reset are equal.
C19_SameDeductionEverywhere ==
    [][IsAdmissionCheck =>
           LET L1 == RefillTokens(rl, now)
               k == L1.burst_tokens - rl'.burst_tokens
               granted == IsCompletion /\ ret'.value = Bool(TRUE)
           IN  /\ k = IF granted THEN CheckedCall.tokens ELSE 0
               /\ L1.minute_tokens - rl'.minute_tokens = k
               /\ L1.hour_tokens - rl'.hour_tokens = k]_vars

\* a try_acquire that returned False after a refill and an earlier grant
C19_Witness ==
    /\ ret.call.fn = "try_acquire" /\ ret.value = Bool(FALSE)
    /\ now > 0
    /\ rl.request_timestamps # <<>>
    /\ rl.minute_tokens < CallsPerMinute

\* when the limiter last granted tokens, if it has since construction or reset
HasGranted == rl.request_timestamps # <<>>
LastGrant == rl.request_timestamps[Len(rl.request_timestamps)]

\* C12: for each bucket, once a full window (1 s, 60 s, 3600 s) has passed
\* since tokens were last taken from it, an admission check finds it at full
\* capacity after its refill, whatever failed admission checks ran a refill
\* during that window.
C12_FullAfterWindow ==
    LET L1 == RefillTokens(rl, now)
        idle(window) == ~HasGranted \/ now - LastGrant >= window
    IN  /\ idle(BurstWindow) => L1.burst_tokens = BurstLimit
        /\ idle(MinuteWindow) => L1.minute_tokens = CallsPerMinute
        /\ idle(HourWindow) => L1.hour_tokens = CallsPerHour

IsRecordSuccess == adaptive'.success_count = adaptive.success_count + 1
IsRecordError == adaptive'.error_count = adaptive.error_count + 1

\* C13: record_success with adaptive_delay > 0 yields a strictly smaller delay
\* that is not below 0, and at 0 the delay stays 0; record_error with a
\* quota-class error and adaptive_delay < 60 s yields a strictly larger delay
\* that is not above 60 s.
C13_DelayStepsWithinRange ==
    [][/\ (IsRecordSuccess /\ adaptive.adaptive_delay > 0)
              => /\ adaptive'.adaptive_delay < adaptive.adaptive_delay
                 /\ adaptive'.adaptive_delay >= 0
       /\ (IsRecordSuccess /\ adaptive.adaptive_delay = 0)
              => adaptive'.adaptive_delay = 0
       /\ (IsRecordError /\ adaptive'.error_type.quota
              /\ adaptive.adaptive_delay < QuotaDelayCap)
              => /\ adaptive'.adaptive_delay > adaptive.adaptive_delay
                 /\ adaptive'.adaptive_delay <= QuotaDelayCap]_vars

\* consecutive successes have brought the delay of an error down to 0, where
\* a further success left it
C13_Witness ==
    /\ adaptive.last_op = "record_success"
    /\ adaptive.adaptive_delay = 0
    /\ adaptive.error_count > 0
    /\ adaptive.success_count > GenericDelayStep

\* quota-class errors have raised the delay to its cap
C13_WitnessCap ==
    /\ adaptive.last_op = "record_error" /\ adaptive.error_type.quota
    /\ adaptive.adaptive_delay = QuotaDelayCap
    /\ adaptive.error_count > QuotaDelayCap \div QuotaDelayStep

\* C14: record_error never makes adaptive_delay smaller, for every error class
\* and every reachable prior delay.
C14_ErrorNeverLowersDelay ==
    [][IsRecordError => adaptive'.adaptive_delay >= adaptive.adaptive_delay]_vars

\* the fixed parts of the messages _make_request gives to a provider error
\* response with a 4xx status that is not a quota error
ProviderClientErrorMsgs == {"API access forbidden", "Bad request", "Resource not found"}

\* C20: get_video_comments and get_video_captions return {'items': []} in place
\* of an error only when the provider's error response says that the
\* sub-resource is absent or disabled; every other failure (the local
\* QuotaExceededException, a provider 403-quota or 5xx error, any other
\* exception) propagates.
C20_EmptyOnlyWhenAbsent ==
    ret.swallowed.type # "none" =>
        /\ ret.swallowed.type = "YouTubeAPIError"
        /\ ret.swallowed.mentions
        /\ ret.msg \in ProviderClientErrorMsgs

\* C11: whatever the durable tier does on a get or a set (it may raise),
\* CacheManager.get and CacheManager.set raise nothing, and _make_request
\* returns the upstream result when the upstream gave one, or else a hit of
\* the in-process tier when the durable lookup failed; no cache error reaches
\* its caller.
C11_DurableFailuresStayInside ==
    [][/\ ~cop'.raised
       /\ (IsCompletion /\ ret'.call.fn = "_make_request") =>
              /\ ret'.msg # "cache error"
              /\ ret'.upstream # None =>
                     (ret'.kind = "return" /\ ret'.value = ret'.upstream)
              /\ (ret'.kind = "return" /\ ret'.upstream = None /\ ret'.call.get_failed) =>
                     /\ HoldsLiveEntry(ret'.call.cache_key)
                     /\ ret'.value =
                            memory_cache[IndexOf(memory_cache,
                                GenerateCacheKey(ret'.call.cache_key))].value]_vars

\* the durable tier raised in the lookup and in the store of a call that
\* returned the upstream result
C11_Witness ==
    /\ redis.client
    /\ ret.call.get_failed /\ ret.set_failed
    /\ ret.kind = "return" /\ ret.upstream # None /\ ret.value = ret.upstream

\* the durable tier raised in the lookup of a call that returned a hit of the
\* in-process tier
C11_WitnessHit ==
    /\ redis.client
    /\ ret.call.get_failed
    /\ ret.kind = "return" /\ ret.upstream = None

\* the durable tier raised in a direct get or set, which returned
C11_WitnessDirect ==
    /\ redis.client
    /\ cop.fn \in {"get", "set"} /\ cop.failed /\ ~cop.raised

\* ------------------------------------------- outcomes of the upstream call
\* request_func.execute() raised in the call that completed last
UpstreamFailed(r) ==
    r.call.fn = "_make_request" /\ r.response.kind \in {"HttpError", "Exception"}
\* the provider answered with status 403 and a text that mentions its quota
ProviderQuotaError(resp) ==
    resp.kind = "HttpError" /\ resp.status = 403 /\ resp.quota
\* a step in which request_func.execute() raises
IsUpstreamFailure == IsCompletion /\ UpstreamFailed(ret')
\* a step in which request_func.execute() returns
IsUpstreamSuccess ==
    IsCompletion /\ ret'.call.fn = "_make_request" /\ ret'.response.kind = "ok"

C21_WitnessQuota ==
    /\ UpstreamFailed(ret) /\ ProviderQuotaError(ret.response)
    /\ ret.kind = "raise" /\ ret.value = Exc("QuotaExceededException")

\* the exception _check_quota raises
LocalQuotaKind == "QuotaExceededException"

\* C22: a provider-side quota-exhausted response (status 403 with a quota
\* reason) reaches the caller as an error kind other than the one the local
\* quota check raises.
C22_ProviderQuotaDistinct ==
    (UpstreamFailed(ret) /\ ProviderQuotaError(ret.response) /\ ret.kind = "raise")
        => ret.value # Exc(LocalQuotaKind)

\* C23 as stated: when the upstream call fails, the failed call writes nothing
\* to the cache, does not increase quota_used, and changes no state but the
\* limiter's.
C23_FailureChangesOnlyTokens ==
    [][IsUpstreamFailure
         => /\ memory_cache' = memory_cache
            /\ redis' = redis
            /\ quota_used' = quota_used
            /\ quota_reset_time' = quota_reset_time]_vars

\* a step of a _make_request call in which the upstream call does not return
IsUnsuccessfulStep ==
    /\ now' = now
    /\ ~IsUpstreamSuccess
    /\ IsUpstreamFailure \/ ~IsCompletion
\* the key whose lookup such a step ran, if the call started in it
LookedUpKey == IF IsStart THEN StartedCall.cache_key ELSE NoKey

\* C23 as amended: when the upstream call fails, nothing is written to the
\* cache and quota_used is not increased; besides the limiter (tokens deducted,
\* grant timestamp appended) the call changes state only before the upstream
\* call: its quota check restarts a quota window that has run out (quota_used
\* = 0, quota_reset_time = now + 1 day) and its cache lookup removes the
\* expired entry of its key.
C23_FailureWritesNothing ==
    [][IsUnsuccessfulStep
         => /\ redis' = redis
            /\ upstream_calls' = upstream_calls + (IF IsUpstreamFailure THEN 1 ELSE 0)
            /\ \/ /\ quota_used' = quota_used
                  /\ quota_reset_time' = quota_reset_time
               \/ /\ IsStart /\ now > quota_reset_time
                  /\ quota_used' = 0
                  /\ quota_reset_time' = now + Day
            /\ \/ memory_cache' = memory_cache
               \/ /\ IsStart /\ enable_caching
                  /\ HasKey(memory_cache, GenerateCacheKey(LookedUpKey))
                  /\ ~HoldsLiveEntry(LookedUpKey)
                  /\ memory_cache' =
                         RemoveKeys(memory_cache, {GenerateCacheKey(LookedUpKey)})]_vars

\* the upstream call failed in a call whose quota check had restarted the
\* quota window, after an earlier call had been granted
C23_Witness ==
    /\ UpstreamFailed(ret) /\ ret.kind = "raise"
    /\ now > Day
    /\ quota_reset_time = now + Day
    /\ quota_used = 0
    /\ Len(rl.request_timestamps) > 1

\* the upstream call failed in a call whose cache lookup had removed the
\* expired entry of its key
C23_WitnessReaped ==
    /\ UpstreamFailed(ret) /\ ret.kind = "raise"
    /\ ret.call.cache_key # NoKey /\ enable_caching
    /\ memory_cache = <<>>
    /\ quota_used > 0

\* the cache holds, unexpired, what the call that completed last got from
\* upstream and stored under key
HoldsLastResult(key) ==
    /\ ret.call.fn = "_make_request" /\ ret.response.kind = "ok"
    /\ ret.kind = "return"
    /\ ret.call.cache_key = key
    /\ HoldsLiveEntry(key)
    /\ memory_cache[IndexOf(memory_cache, GenerateCacheKey(key))].value = ret.upstream

\* C24: a _make_request whose upstream call succeeds leaves quota_used larger
\* by exactly cost(operation) than its quota check found it (1 for an
\* operation that is not in the cost table); with caching enabled, the same
\* call repeated at once with the same cache key returns the cached result
\* without an upstream call and without changing quota_used.
C24_CostThenCacheHit ==
    [][/\ IsUpstreamSuccess
              => quota_used' = (IF IsStart THEN QuotaAtCheck ELSE quota_used)
                                   + OperationCost(ret'.call.operation)
       /\ (IsStart /\ StartedCall.fn = "_make_request"
              /\ StartedCall.operation = ret.call.operation
              /\ HoldsLastResult(StartedCall.cache_key))
              => /\ IsCompletion
                 /\ ret'.kind = "return"
                 /\ ret'.value = ret.upstream
                 /\ upstream_calls' = upstream_calls
                 /\ quota_used' = quota_used]_vars

\* C25: every _make_request whose upstream call fails reports the error to
\* the limiter through record_error before it raises, and every one whose
\* upstream call succeeds reports record_success.
C25_OutcomeReportedToLimiter ==
    [][/\ IsUpstreamFailure => IsRecordError
       /\ IsUpstreamSuccess => IsRecordSuccess]_vars

\* C30: for every interleaving of concurrent _make_request calls on one
\* client, quota_used <= quota_limit in every reachable state.
C30_QuotaWithinLimit == quota_used <= quota_limit

\* C28: after every grant, made by acquire or by try_acquire, the limiter's
\* list of grant timestamps holds only timestamps of the last hour (so its
\* length is bounded by the number of grants possible in one hour).
C28_TimestampsWithinHour ==
    [][(IsCompletion /\ ret'.call.fn \in {"acquire", "try_acquire"}
          /\ ret'.value = Bool(TRUE))
         => \A i \in 1..Len(rl'.request_timestamps) :
                rl'.request_timestamps[i] >= now - TimestampWindow]_vars

\* the in-process cache holds an entry for key that has expired
HoldsExpiredEntry(key) ==
    /\ HasKey(memory_cache, GenerateCacheKey(key))
    /\ memory_cache[IndexOf(memory_cache, GenerateCacheKey(key))].expires_at <= now

\* C27: get, exists and get_many never report an in-process entry whose
\* expires_at <= now as present, although it is still stored: get returns the
\* default, exists returns False, get_many leaves the key out of its result;
\* and the access removes the entry.
C27_ExpiredEntriesAreAbsent ==
    [][IsStart =>
           /\ (cop'.fn = "get" /\ HoldsExpiredEntry(cop'.key))
                  => /\ cop'.result = None
                     /\ ~HasKey(memory_cache', GenerateCacheKey(cop'.key))
           /\ (cop'.fn = "exists" /\ HoldsExpiredEntry(cop'.key))
                  => /\ cop'.result = FALSE
                     /\ ~HasKey(memory_cache', GenerateCacheKey(cop'.key))
           /\ cop'.fn = "get_many"
                  => \A i \in 1..Len(cop'.keys) :
                         HoldsExpiredEntry(cop'.keys[i])
                             => /\ \A j \in 1..Len(cop'.result) :
                                       cop'.result[j].key # cop'.keys[i]
                                /\ ~HasKey(memory_cache', GenerateCacheKey(cop'.keys[i]))]_vars

\* get_many found one of its keys expired and still stored, removed it, and
\* returned the live entry of another key
C27_Witness ==
    /\ cop.fn = "get_many"
    /\ cop.reaped # {}
    /\ cop.result # <<>>

\* exists found the entry of its key expired and still stored
C27_WitnessExists ==
    /\ cop.fn = "exists" /\ cop.result = FALSE
    /\ cop.reaped = {GenerateCacheKey(cop.key)}

\* get found the entry of its key expired and still stored
C27_WitnessGet ==
    /\ cop.fn = "get" /\ cop.result = None
    /\ cop.reaped = {GenerateCacheKey(cop.key)}

\* C26: operations made through the client object of one credential never
\* change quota_used, quota_reset_time, the token buckets or the in-process
\* cache of the object of another credential: the state of an object changes
\* only in a call made on it by a handler that asked for its credential, or
\* when get_youtube_api constructs it; the module-level object is never
\* touched on behalf of a user's key.
C26_ClientsShareNothing ==
    [][\A o \in ClientObjects :
           ClientObject(o)' # ClientObject(o) =>
               \/ /\ clients' = clients
                  /\ clients.cur = o
                  /\ clients.api_key[o] = clients.requested
               \/ /\ clients' # clients
                  /\ o = "user"
                  /\ ClientObject(o)' = NewClient(now)]_vars

\* calls were made through the object of a user's key and through the
\* module-level object, and both have used quota and tokens
C26_Witness ==
    /\ clients.cur = "user"
    /\ clients.api_key["user"] # DefaultApiKey
    /\ quota_used > 0 /\ rl.request_timestamps # <<>>
    /\ clients.parked.quota_used > 0
    /\ clients.parked.rl.request_timestamps # <<>>
    /\ clients.parked # ClientObject("user")

\* C29: two client objects, in the same process or in two runs of it, derive
\* the same cache key for the same operation and parameters, for every method
\* of the wrapper that derives one.
C29_SameRequestSameKey ==
    (/\ keylog.prev.method # "none"
     /\ keylog.prev.method = keylog.last.method
     /\ keylog.prev.params = keylog.last.params)
        => keylog.prev.key = keylog.last.key

\* C39: when the in-process tier already holds memory_cache_max_size live
\* entries, set(k, v) for a key k that is present replaces k's entry without
\* evicting any other live entry, and k is present with value v afterwards.
C39_ReplaceEvictsNothing ==
    [][(/\ IsStart /\ cop'.fn = "set" /\ enable_caching
        /\ HasKey(memory_cache, GenerateCacheKey(cop'.key))
        /\ Len(RemoveExpired(memory_cache, now)) = CacheMaxSize)
         => LET ck == GenerateCacheKey(cop'.key)
            IN  /\ KeySet(memory_cache') = KeySet(memory_cache)
                /\ memory_cache'[IndexOf(memory_cache', ck)].value = cop'.value]_vars

\* C31: with caching enabled, paginating in search_videos does not change the
\* value the cache holds for the first page, and of two consecutive identical
\* search_videos calls with max_results = N > 50 the second, whose first page
\* is a cache hit, returns the item sequence the first returned and at most N
\* items.
C31_RepeatedSearchSameItems ==
    LET N == search.max_results
        ck == GenerateCacheKey(SearchKey(N))
    IN  (enable_caching /\ N > 50 /\ search.pc = "returned") =>
            /\ (~search.again /\ HasKey(memory_cache, ck)) =>
                   memory_cache[IndexOf(memory_cache, ck)].value.items
                       = search.pages[1].items
            /\ (search.again /\ search.hit) =>
                   /\ search.result.items = search.first_items
                   /\ Len(search.result.items) <= N

\* C32: the pagination loop of search_videos terminates for every provider
\* behaviour, pages of zero items with a continuation token included: a call
\* that was started eventually returns a result or raises an error.
C32_SearchTerminates ==
    (search.pc \in {"first", "loop", "wait"}) ~> (search.pc \in {"returned", "raised"})

\* the provider kept sending empty pages with a continuation token, and the
\* call ended when the quota check refused the next page
C32_Witness ==
    /\ search.pc = "raised" /\ search.exc = "QuotaExceededException"
    /\ Len(search.pages) >= 3
    /\ \A j \in 2..Len(search.pages) :
           search.pages[j].items = <<>> /\ search.pages[j].token # NoToken

\* C33: every upstream call issued by a public operation of the wrapper,
\* download_caption and get_video_transcript included, is made inside
\* _make_request after its quota check, with a grant of the rate limiter, and
\* is followed on success by a quota update of the operation's cost.
C33_UpstreamCallsAreOrchestrated ==
    [][upstream_calls' # upstream_calls =>
          /\ ret'.call.fn = "_make_request"
          /\ rl' = GrantAcquire(RefillTokens(rl, now), 1, now)
          /\ ret'.response.kind = "ok" =>
                 quota_used' = (IF IsStart THEN QuotaAtCheck ELSE quota_used)
                                   + OperationCost(ret'.call.operation)]_vars

\* C34: for get_video_details and get_channel_details, each ID of the list
\* the caller supplies, however long, is sent in exactly one sub-call of at
\* most 50 IDs: no supplied ID is dropped from the request.
C34_EveryIdRequested ==
    batch.pc = "direct" =>
        /\ \A r \in 1..Len(batch.requests) : Len(batch.requests[r]) <= 50
        /\ \A j \in 1..Len(batch.video_ids) :
               Cardinality({rk \in {<<r, k>> : r \in 1..Len(batch.requests), k \in 1..50} :
                               /\ rk[2] <= Len(batch.requests[rk[1]])
                               /\ batch.requests[rk[1]][rk[2]] = batch.video_ids[j]}) = 1

RECURSIVE TokensSince(_, _)
\* the tokens of the deductions of g made after time since
TokensSince(g, since) ==
    IF g = <<>> THEN 0
    ELSE (IF Head(g).at > since THEN Head(g).tokens ELSE 0)
         + TokensSince(Tail(g), since)

\* acquire and try_acquire calls, without reset
NextGrants ==
    \/ \E c \in Procs, tokens \in TokenArgs : Acquire(c, tokens)
    \/ \E c \in Procs, tokens \in TokenArgs : TryAcquire(c, tokens)
    \/ \E c \in Procs : LockGranted(c, NoResponse)
    \/ \E c \in Procs : Wake(c, NoResponse)
    \/ \E d \in TimeSteps : Tick(d)

SpecGrants == InitLimiter /\ [][NextGrants]_vars

\* the tokens granted in the interval of length window that ends now
GrantedWithin(window) == TokensSince(rl.granted, now - window)

Proportional(tokens, last, t, window, capacity) ==
    Min(capacity, tokens + TokensToAdd(t - last, window, capacity))

\* a refill at t that took a bucket from <<tokens0, last0>> to
\* <<tokens1, last1>> filled the bucket, or left every part of the elapsed
\* time either paid out in tokens or still counted from last1
Credited(tokens0, last0, tokens1, last1, t, window, capacity) ==
    \/ tokens1 = capacity
    \/ (tokens1 - tokens0) * window + (t - last1) * capacity
           = (t - last0) * capacity

\* C38 as stated: on every admission check each of the three buckets (burst
\* included) gains tokens in proportion to the time elapsed since its last
\* refill, capped at capacity, and no elapsed time is discarded without
\* crediting the tokens it earned.
C38_RefillIsProportional ==
    [][rl' # rl =>
        LET L == RefillTokens(rl, now)
        IN  /\ L.minute_tokens = Proportional(rl.minute_tokens, rl.minute_last_refill,
                                              now, MinuteWindow, CallsPerMinute)
            /\ L.hour_tokens = Proportional(rl.hour_tokens, rl.hour_last_refill,
                                            now, HourWindow, CallsPerHour)
            /\ L.burst_tokens = Proportional(rl.burst_tokens, rl.burst_last_refill,
                                             now, BurstWindow, BurstLimit)
            /\ Credited(rl.minute_tokens, rl.minute_last_refill,
                        L.minute_tokens, L.minute_last_refill,
                        now, MinuteWindow, CallsPerMinute)
            /\ Credited(rl.hour_tokens, rl.hour_last_refill,
                        L.hour_tokens, L.hour_last_refill,
                        now, HourWindow, CallsPerHour)
            /\ Credited(rl.burst_tokens, rl.burst_last_refill,
                        L.burst_tokens, L.burst_last_refill,
                        now, BurstWindow, BurstLimit)]_vars
====
